---- MODULE Spec2Model ----
(***************************************************************************)
(* State-machine model of Samples/AzureIoT/main.c: the connection state    *)
(* machine, the retry/backoff policy and the poll loop of the Azure IoT    *)
(* sample, with the Azure IoT SDK, the networking probe and the GPIOs as   *)
(* external collaborators whose results are nondeterministic inputs.       *)
(*                                                                         *)
(* Each C function that changes program state is an operator from a state  *)
(* record (one field per global of main.c) and the results of the external *)
(* calls it makes to the state record it leaves behind.  An action of the  *)
(* next-state relation is one dispatch of the event loop or one callback   *)
(* made by IoTHubDeviceClient_LL_DoWork.                                    *)
(***************************************************************************)
EXTENDS Integers, Sequences, FiniteSets, TLC

(* ------------------------------ bounds -------------------------------- *)

\* Number of distinct addresses the SDK allocator can hand out for a client
\* handle; a create call fails (returns NULL) when all are in use.
MaxHandles == 2

\* Cap of the history counter of consecutive failed setup attempts.
MaxFailStreak == 7

(* ------------------------- program constants -------------------------- *)

AzureIoTDefaultPollPeriodSeconds == 2
AzureIoTPollPeriodsPerTelemetry == 10
AzureIoTMinReconnectPeriodSeconds == 60
AzureIoTMaxReconnectPeriodSeconds == 10 * 60

ExitCode_Success == 0
ExitCode_TermHandler_SigTerm == 1
ExitCode_Main_EventLoopFail == 2
ExitCode_ButtonTimer_Consume == 3
ExitCode_AzureTimer_Consume == 4
ExitCode_Init_EventLoop == 5
ExitCode_Init_MessageButton == 6
ExitCode_Init_TwinStatusLed == 8
ExitCode_Init_ButtonPollTimer == 9
ExitCode_Init_AzureTimer == 10
ExitCode_IsButtonPressed_GetValue == 11
ExitCode_Validate_ConnectionType == 12
ExitCode_Validate_ScopeId == 13
ExitCode_Validate_IotHubHostname == 14
ExitCode_Validate_DeviceId == 15
ExitCode_InterfaceConnectionStatus_Failed == 16

ConnectionType_NotDefined == 0
ConnectionType_DPS == 1
ConnectionType_Direct == 2

NotAuthenticated == "NotAuthenticated"
AuthenticationInitiated == "AuthenticationInitiated"
Authenticated == "Authenticated"
AuthenticationStates == {NotAuthenticated, AuthenticationInitiated, Authenticated}

\* The NULL pointer, and the addresses a client handle can have.
NULL == 0
\* The period of a timer that was not created.
NoTimer == -1
Handles == 1 .. MaxHandles

\* The three callbacks SetUpAzureIoTHubClient registers on a handle.
CallbackNames == {"twin", "method", "status"}

\* The four LEDs, by the names of their device twin properties, and the
\* levels of a GPIO.
LedNames == {"StatusLED", "RLED", "GLED", "BLED"}
GPIO_Values == {"High", "Low"}
Unopened == "Unopened"

\* A JSON object as far as the program reads it: for each LED property the
\* member's value, "absent" when the object has no such member and "number"
\* for a member that is not a boolean.
JsonValues == {"absent", "true", "false", "number"}
NoMembers == [led \in LedNames |-> "absent"]

\* The payload of a twin callback. text: "malformed" when it is not JSON,
\* "scalar" when its root is no object, "object" otherwise; root: the members
\* of the root object; hasDesired: the root has an object member "desired";
\* desired: the members of that object.
Document(text, root, hasDesired, desired) ==
    [text |-> text, root |-> root, hasDesired |-> hasDesired, desired |-> desired]
NoPayload == Document("none", NoMembers, FALSE, NoMembers)

(* ------------------------------ state --------------------------------- *)

VARIABLES
    pc,                               \* position of main(): see PcValues
    exitCode,
    connectionType, scopeId, hubHostName, deviceId,
    iotHubClientAuthenticationState,
    iothubClientHandle,               \* NULL or an address in Handles
    liveHandles,                      \* addresses of created, not destroyed handles
    callbacks,                        \* callbacks stored in the object at each address
    azureIoTPollPeriodSeconds,
    azureTimerPeriod,                 \* period the azureTimer is armed with
    telemetryCount,
    sendMessageButtonState,
    statusLedOn, RLedOn, GLedOn, BLedOn,
    gpioOutput,                       \* level of each LED's GPIO, Unopened before it is opened
    payload,                          \* history: the document the latest handler was
                                      \* called with, NoPayload when with none
    trace,                            \* the latest handler: its call and, in order, the
                                      \* external calls it made, with their results
    before,                           \* history: globals when the latest handler started
    consecutiveFailures               \* history: failed setups since the last success

vars == <<pc, exitCode, connectionType, scopeId, hubHostName, deviceId,
          iotHubClientAuthenticationState, iothubClientHandle, liveHandles,
          callbacks, azureIoTPollPeriodSeconds, azureTimerPeriod, telemetryCount,
          sendMessageButtonState, statusLedOn, RLedOn, GLedOn, BLedOn,
          gpioOutput, payload, trace, before, consecutiveFailures>>

\* main:    before ValidateUserConfiguration
\* init:    inside InitPeripheralsAndHandlers, SIGTERM handler installed
\* loop:    at the test of the main loop
\* run:     inside EventLoop_Run, waiting for an event
\* dowork:  inside IoTHubDeviceClient_LL_DoWork, called by the azure timer handler
\* exited:  main has returned
\* crashed: the process was killed by a fault in the SDK
PcValues == {"main", "init", "loop", "run", "dowork", "exited", "crashed"}

\* The mutable globals as one record, the argument and result of the operators
\* that model the C functions.
State ==
    [pc |-> pc,
     exitCode |-> exitCode,
     iotHubClientAuthenticationState |-> iotHubClientAuthenticationState,
     iothubClientHandle |-> iothubClientHandle,
     liveHandles |-> liveHandles,
     callbacks |-> callbacks,
     azureIoTPollPeriodSeconds |-> azureIoTPollPeriodSeconds,
     azureTimerPeriod |-> azureTimerPeriod,
     telemetryCount |-> telemetryCount,
     sendMessageButtonState |-> sendMessageButtonState,
     statusLedOn |-> statusLedOn,
     RLedOn |-> RLedOn,
     GLedOn |-> GLedOn,
     BLedOn |-> BLedOn,
     gpioOutput |-> gpioOutput,
     payload |-> payload,
     trace |-> trace,
     before |-> before,
     consecutiveFailures |-> consecutiveFailures]

\* The state after a handler: every global takes its value from the record.
Commit(s) ==
    /\ pc' = s.pc
    /\ exitCode' = s.exitCode
    /\ iotHubClientAuthenticationState' = s.iotHubClientAuthenticationState
    /\ iothubClientHandle' = s.iothubClientHandle
    /\ liveHandles' = s.liveHandles
    /\ callbacks' = s.callbacks
    /\ azureIoTPollPeriodSeconds' = s.azureIoTPollPeriodSeconds
    /\ azureTimerPeriod' = s.azureTimerPeriod
    /\ telemetryCount' = s.telemetryCount
    /\ sendMessageButtonState' = s.sendMessageButtonState
    /\ statusLedOn' = s.statusLedOn
    /\ RLedOn' = s.RLedOn
    /\ GLedOn' = s.GLedOn
    /\ BLedOn' = s.BLedOn
    /\ gpioOutput' = s.gpioOutput
    /\ payload' = s.payload
    /\ trace' = s.trace
    /\ before' = s.before
    /\ consecutiveFailures' = s.consecutiveFailures
    /\ UNCHANGED <<connectionType, scopeId, hubHostName, deviceId>>

\* Records one external call of the running handler, as
\* <<function, argument, result>>.
Call(s, call) == [s EXCEPT !.trace = Append(@, call)]

\* The globals the history variable keeps.
Snapshot(s) ==
    [iotHubClientAuthenticationState |-> s.iotHubClientAuthenticationState,
     azureIoTPollPeriodSeconds |-> s.azureIoTPollPeriodSeconds]

\* A handler is called: the trace starts with <<handler, argument, argument>>.
Enter(s, handler, arg1, arg2) ==
    [s EXCEPT !.trace = << <<handler, arg1, arg2>> >>, !.before = Snapshot(s)]

\* No handler is running or has just run.
Idle(s) == [s EXCEPT !.trace = <<>>, !.before = Snapshot(s)]

Crashed(s) == s.pc = "crashed"



(* ----------------------- the Azure IoT SDK ---------------------------- *)

\* What a use of a destroyed handle can do: fault, return without effect, or
\* act on the freed object as if it were still there.
DanglingOutcomes == {"CRASH", "NOOP", "STALE"}

IsLive(s) == s.iothubClientHandle \in s.liveHandles
IsDangling(s) == s.iothubClientHandle # NULL /\ ~IsLive(s)

\* The address the allocator gives the next handle, NULL when none is free.
NewHandle(s) ==
    LET free == Handles \ s.liveHandles
    IN IF free = {} THEN NULL ELSE CHOOSE h \in free : \A g \in free : h <= g

\* IoTHubDeviceClient_LL_Destroy(iothubClientHandle): frees a live handle; on a
\* handle already destroyed it faults or returns (ub).
IoTHubDeviceClient_LL_Destroy(s, ub) ==
    LET s1 == Call(s, <<"IoTHubDeviceClient_LL_Destroy", "",
                        IF IsLive(s) THEN "OK" ELSE ub>>)
    IN IF IsLive(s)
       THEN [s1 EXCEPT !.liveHandles = @ \ {s.iothubClientHandle}]
       ELSE IF ub = "CRASH" THEN [s1 EXCEPT !.pc = "crashed"] ELSE s1

\* A create call of the SDK that succeeds: a new object with no callbacks, its
\* address stored in iothubClientHandle.
CreateHandle(s, h) ==
    [s EXCEPT !.iothubClientHandle = h,
              !.liveHandles = @ \cup {h},
              !.callbacks = [@ EXCEPT ![h] = {}]]

\* IoTHubDeviceClient_LL_Set...Callback(iothubClientHandle, ...): stores the
\* callback in the object.
SetCallback(s, name) ==
    LET s1 == Call(s, <<"SetCallback", name, "OK">>)
    IN [s1 EXCEPT !.callbacks =
           [@ EXCEPT ![s.iothubClientHandle] = @ \cup {name}]]

\* SetEventLoopTimerPeriod(azureTimer, &azureTelemetryPeriod) with the current
\* poll period.
SetEventLoopTimerPeriod(s) ==
    [Call(s, <<"SetEventLoopTimerPeriod", "azureTimer", "OK">>)
        EXCEPT !.azureTimerPeriod = s.azureIoTPollPeriodSeconds]

(* ------------------------ retry / backoff ----------------------------- *)

BackoffPollPeriod_NoCap(p) ==
    IF p = AzureIoTDefaultPollPeriodSeconds
    THEN AzureIoTMinReconnectPeriodSeconds
    ELSE p * 2

BackoffPollPeriod_DoublesDefault(p) ==
    LET doubled == p * 2
    IN IF doubled > AzureIoTMaxReconnectPeriodSeconds
       THEN AzureIoTMaxReconnectPeriodSeconds
       ELSE doubled

\* The new value of azureIoTPollPeriodSeconds after a failed setup attempt.
BackoffPollPeriod(p) ==
    IF p = AzureIoTDefaultPollPeriodSeconds
    THEN AzureIoTMinReconnectPeriodSeconds
    ELSE LET doubled == p * 2
         IN IF doubled > AzureIoTMaxReconnectPeriodSeconds
            THEN AzureIoTMaxReconnectPeriodSeconds
            ELSE doubled

(* ---------------------- connection set-up ----------------------------- *)

DaaResults == {"security_init_failed", "create_null", "setoption_failed", "ok"}
DpsResults == {"failed_handle_unchanged", "failed_handle_null", "ok"}

\* Result: the state left behind and the function's return value.
SetUpAzureIoTHubClientWithDaa(s, r) ==
    LET s1 == Call(s, <<"iothub_security_init", "X509",
                        IF r = "security_init_failed" THEN "ERROR" ELSE "OK">>)
        h  == IF r = "create_null" THEN NULL ELSE NewHandle(s1)
        s2 == Call(s1, <<"IoTHubDeviceClient_LL_CreateFromDeviceAuth", "",
                         IF h = NULL THEN "NULL" ELSE "OK">>)
        s3 == IF h = NULL THEN [s2 EXCEPT !.iothubClientHandle = NULL]
              ELSE CreateHandle(s2, h)
        s4 == Call(s3, <<"IoTHubDeviceClient_LL_SetOption", "SetDeviceId",
                         IF r = "setoption_failed" THEN "ERROR" ELSE "OK">>)
    IN IF r = "security_init_failed" THEN [s |-> s1, ok |-> FALSE]
       ELSE IF h = NULL THEN [s |-> s3, ok |-> FALSE]
       ELSE IF r = "setoption_failed" THEN [s |-> s4, ok |-> FALSE]
       ELSE [s |-> s4, ok |-> TRUE]

\* The provisioning call stores a handle when it succeeds; when it fails it
\* leaves iothubClientHandle as it was or stores NULL.
SetUpAzureIoTHubClientWithDps(s, r) ==
    LET h  == IF r = "ok" THEN NewHandle(s) ELSE NULL
        s1 == Call(s, <<"IoTHubDeviceClient_LL_CreateWithAzureSphereDeviceAuthProvisioning",
                        "", IF h = NULL THEN "ERROR" ELSE "OK">>)
    IN IF h # NULL THEN [s |-> CreateHandle(s1, h), ok |-> TRUE]
       ELSE IF r = "failed_handle_null"
            THEN [s |-> [s1 EXCEPT !.iothubClientHandle = NULL], ok |-> FALSE]
            ELSE [s |-> s1, ok |-> FALSE]

DestroyPriorHandle_Skipped(s, ub) == s

\* The start of SetUpAzureIoTHubClient: the handle of the previous attempt.
DestroyPriorHandle(s, ub) ==
    IF s.iothubClientHandle # NULL
    THEN IoTHubDeviceClient_LL_Destroy(s, ub)
    ELSE s

SetUpFailed_MarksInitiated(s) ==
    LET s1 == [s EXCEPT !.azureIoTPollPeriodSeconds = BackoffPollPeriod(@)]
    IN [SetEventLoopTimerPeriod(s1) EXCEPT
           !.consecutiveFailures = IF @ < MaxFailStreak THEN @ + 1 ELSE @,
           !.iotHubClientAuthenticationState = AuthenticationInitiated]

\* SetUpAzureIoTHubClient when the setup procedure returned false.
SetUpFailed(s) ==
    LET s1 == [s EXCEPT !.azureIoTPollPeriodSeconds = BackoffPollPeriod(@)]
    IN [SetEventLoopTimerPeriod(s1) EXCEPT
           !.consecutiveFailures = IF @ < MaxFailStreak THEN @ + 1 ELSE @]

RegisterCallbacks(s) ==
    SetCallback(SetCallback(SetCallback(s, "twin"), "method"), "status")

SetUpSucceeded_KeepsPeriod(s) ==
    RegisterCallbacks(
        [SetEventLoopTimerPeriod(s) EXCEPT
            !.consecutiveFailures = 0,
            !.iotHubClientAuthenticationState = AuthenticationInitiated])

SetUpSucceeded_StateUnset(s) ==
    LET s1 == [s EXCEPT !.azureIoTPollPeriodSeconds = AzureIoTDefaultPollPeriodSeconds]
    IN RegisterCallbacks([SetEventLoopTimerPeriod(s1) EXCEPT !.consecutiveFailures = 0])

SetUpSucceeded_RestartsCadence(s) ==
    LET s1 == [s EXCEPT !.azureIoTPollPeriodSeconds = AzureIoTDefaultPollPeriodSeconds]
    IN RegisterCallbacks(
           [SetEventLoopTimerPeriod(s1) EXCEPT
               !.consecutiveFailures = 0,
               !.telemetryCount = 0,
               !.iotHubClientAuthenticationState = AuthenticationInitiated])

\* SetUpAzureIoTHubClient when the setup procedure returned true.
SetUpSucceeded(s) ==
    LET s1 == [s EXCEPT !.azureIoTPollPeriodSeconds = AzureIoTDefaultPollPeriodSeconds]
    IN RegisterCallbacks(
           [SetEventLoopTimerPeriod(s1) EXCEPT
               !.consecutiveFailures = 0,
               !.iotHubClientAuthenticationState = AuthenticationInitiated])

SetUpAzureIoTHubClient_RetriesInline(s, in) ==
    LET s1 == DestroyPriorHandle(s, in.destroy)
        Procedure(st) ==
            IF connectionType = ConnectionType_Direct
            THEN SetUpAzureIoTHubClientWithDaa(st, in.setup)
            ELSE SetUpAzureIoTHubClientWithDps(st, in.setup)
        r1 == Procedure(s1)
        r  == IF r1.ok THEN r1 ELSE Procedure(r1.s)
    IN IF Crashed(s1) THEN s1
       ELSE IF ~r.ok THEN SetUpFailed(r.s)
       ELSE SetUpSucceeded(r.s)

SetUpAzureIoTHubClient(s, in) ==
    LET s1 == DestroyPriorHandle(s, in.destroy)
        r  == IF connectionType = ConnectionType_Direct
              THEN SetUpAzureIoTHubClientWithDaa(s1, in.setup)
              ELSE IF connectionType = ConnectionType_DPS
                   THEN SetUpAzureIoTHubClientWithDps(s1, in.setup)
                   ELSE [s |-> s1, ok |-> FALSE]
        isClientSetupSuccessful == r.ok
    IN IF Crashed(s1) THEN s1
       ELSE IF ~isClientSetupSuccessful THEN SetUpFailed(r.s)
       ELSE SetUpSucceeded(r.s)

(* -------------------------- reported state ---------------------------- *)

\* What IoTHubDeviceClient_LL_SendReportedState and ..._SendEventAsync can
\* return on the handle of s; on a destroyed handle the call may also fault.
SendResults(s) ==
    IF IsLive(s) THEN {"OK", "ERROR"}
    ELSE IF IsDangling(s) THEN {"CRASH", "OK", "ERROR"}
    ELSE {"ERROR"}

TwinReportState(s, jsonState, r) ==
    IF s.iothubClientHandle = NULL THEN s
    ELSE LET s1 == Call(s, <<"IoTHubDeviceClient_LL_SendReportedState", jsonState, r>>)
         IN IF r = "CRASH" THEN [s1 EXCEPT !.pc = "crashed"] ELSE s1

StaticReport == "{manufacturer:Microsoft,model:Azure Sphere Sample Device}"

(* ---------------------- connection status callback -------------------- *)

ConnectionStatuses == {"AUTHENTICATED", "UNAUTHENTICATED"}
ConnectionStatusReasons == {"EXPIRED_SAS_TOKEN", "NO_NETWORK", "OK"}

ConnectionStatusCallback_KeepsInitiated(s0, result, reason, r) ==
    LET s == Enter(s0, "ConnectionStatusCallback", result, reason)
    IN IF result # "AUTHENTICATED"
       THEN IF s.iotHubClientAuthenticationState = AuthenticationInitiated THEN s
            ELSE [s EXCEPT !.iotHubClientAuthenticationState = NotAuthenticated]
       ELSE TwinReportState(
                [s EXCEPT !.iotHubClientAuthenticationState = Authenticated],
                StaticReport, r)

ConnectionStatusCallback_NoReport(s0, result, reason, r) ==
    LET s == Enter(s0, "ConnectionStatusCallback", result, reason)
    IN IF result # "AUTHENTICATED"
       THEN [s EXCEPT !.iotHubClientAuthenticationState = NotAuthenticated]
       ELSE [s EXCEPT !.iotHubClientAuthenticationState = Authenticated]

ConnectionStatusCallback(s0, result, reason, r) ==
    LET s == Enter(s0, "ConnectionStatusCallback", result, reason)
    IN IF result # "AUTHENTICATED"
       THEN [s EXCEPT !.iotHubClientAuthenticationState = NotAuthenticated]
       ELSE TwinReportState(
                [s EXCEPT !.iotHubClientAuthenticationState = Authenticated],
                StaticReport, r)

(* ----------------------------- telemetry ------------------------------ *)

\* Networking_GetInterfaceConnectionStatus: 0 with or without the
\* ConnectedToInternet bit, -1 with errno EAGAIN, -1 with another errno.
ProbeResults == {"INTERNET", "NOINTERNET", "EAGAIN", "FATAL"}

Networking_GetInterfaceConnectionStatus(s, probe) ==
    Call(s, <<"Networking_GetInterfaceConnectionStatus", "wlan0", probe>>)

\* Result: the state left behind and the function's return value.
IsConnectionReadyToSendTelemetry(s, probe) ==
    LET s1 == Networking_GetInterfaceConnectionStatus(s, probe)
    IN IF probe = "FATAL"
       THEN [s |-> [s1 EXCEPT !.exitCode = ExitCode_InterfaceConnectionStatus_Failed],
             ok |-> FALSE]
       ELSE [s |-> s1, ok |-> probe = "INTERNET"]

SendTelemetry_ResendsRejected(s, jsonMessage, in) ==
    IF s.iotHubClientAuthenticationState # Authenticated THEN s
    ELSE LET ready == IsConnectionReadyToSendTelemetry(s, in.probe)
             s1 == ready.s
             s2 == Call(s1, <<"IoTHubMessage_CreateFromString", jsonMessage,
                              IF in.message THEN "OK" ELSE "NULL">>)
             s3 == Call(s2, <<"IoTHubDeviceClient_LL_SendEventAsync", jsonMessage,
                              in.send>>)
         IN IF ~ready.ok THEN s1
            ELSE IF ~in.message THEN s2
            ELSE IF in.send = "CRASH" THEN [s3 EXCEPT !.pc = "crashed"]
            ELSE IF in.send = "ERROR"
                 THEN Call(s3, <<"IoTHubDeviceClient_LL_SendEventAsync", jsonMessage,
                                 "OK">>)
            ELSE s3

SendTelemetry_IgnoresReadiness(s, jsonMessage, in) ==
    IF s.iotHubClientAuthenticationState # Authenticated THEN s
    ELSE LET ready == IsConnectionReadyToSendTelemetry(s, in.probe)
             s2 == Call(ready.s, <<"IoTHubMessage_CreateFromString", jsonMessage, "OK">>)
         IN Call(s2, <<"IoTHubDeviceClient_LL_SendEventAsync", jsonMessage, "OK">>)

\* in: the probe's result, whether IoTHubMessage_CreateFromString gave a
\* message, and the result of IoTHubDeviceClient_LL_SendEventAsync.
SendTelemetry(s, jsonMessage, in) ==
    IF s.iotHubClientAuthenticationState # Authenticated THEN s
    ELSE LET ready == IsConnectionReadyToSendTelemetry(s, in.probe)
             s1 == ready.s
             s2 == Call(s1, <<"IoTHubMessage_CreateFromString", jsonMessage,
                              IF in.message THEN "OK" ELSE "NULL">>)
             s3 == Call(s2, <<"IoTHubDeviceClient_LL_SendEventAsync", jsonMessage,
                              in.send>>)
         IN IF ~ready.ok THEN s1
            ELSE IF ~in.message THEN s2
            ELSE IF in.send = "CRASH" THEN [s3 EXCEPT !.pc = "crashed"]
            ELSE s3

\* SendEventCallback(result, context): the confirmation of a message the
\* transport had accepted; it writes the result to the log.
ConfirmationResults == {"OK", "ERROR"}
SendEventCallback(s0, result) == Enter(s0, "SendEventCallback", result, "")

\* The results the external calls of one SendTelemetry can have in s: one
\* input for each path through the function.
NoSend == [probe |-> "INTERNET", message |-> TRUE, send |-> "ERROR"]

TelemetryInputs(s) ==
    IF s.iotHubClientAuthenticationState # Authenticated
    THEN {NoSend}
    ELSE {[probe |-> p, message |-> TRUE, send |-> "ERROR"] :
              p \in ProbeResults \ {"INTERNET"}}
         \cup {[probe |-> "INTERNET", message |-> FALSE, send |-> "ERROR"]}
         \cup {[probe |-> "INTERNET", message |-> TRUE, send |-> r] :
                  r \in SendResults(s)}

SendTempTelemetry(s, in1, in2) ==
    LET s1 == SendTelemetry(s, "Temperature", in1)
    IN IF Crashed(s1) THEN s1 ELSE SendTelemetry(s1, "Humidity", in2)

(* ----------------------------- button --------------------------------- *)

IsButtonPressed_LevelTriggered(s, read, newState) ==
    LET s1 == Call(s, <<"GPIO_GetValue", "SAMPLE_BUTTON_1",
                        IF read THEN newState ELSE "ERROR">>)
    IN IF ~read
       THEN [s |-> [s1 EXCEPT !.exitCode = ExitCode_IsButtonPressed_GetValue],
             pressed |-> FALSE]
       ELSE [s |-> [s1 EXCEPT !.sendMessageButtonState = newState],
             pressed |-> newState = "Low"]

\* Result: the state left behind and the function's return value.
\* read: whether GPIO_GetValue succeeded; newState: the value it read.
IsButtonPressed(s, read, newState) ==
    LET s1 == Call(s, <<"GPIO_GetValue", "SAMPLE_BUTTON_1",
                        IF read THEN newState ELSE "ERROR">>)
    IN IF ~read
       THEN [s |-> [s1 EXCEPT !.exitCode = ExitCode_IsButtonPressed_GetValue],
             pressed |-> FALSE]
       ELSE [s |-> [s1 EXCEPT !.sendMessageButtonState = newState],
             pressed |-> (newState # s.sendMessageButtonState) /\ (newState = "Low")]

\* ConsumeEventLoopTimerEvent(timer) of a timer handler.
ConsumeEventLoopTimerEvent(s, timer, consume) ==
    Call(s, <<"ConsumeEventLoopTimerEvent", timer, IF consume THEN "OK" ELSE "ERROR">>)

\* A handler of the event loop returns into the main loop, unless the process
\* has faulted.
Return(s) == IF Crashed(s) THEN s ELSE [s EXCEPT !.pc = "loop"]

ButtonPollTimerEventHandler(s0, in) ==
    LET s == ConsumeEventLoopTimerEvent(
                 Enter(s0, "ButtonPollTimerEventHandler", "", ""),
                 "buttonPollTimer", in.consume)
        b == IsButtonPressed(s, in.read, in.newState)
    IN IF ~in.consume
       THEN Return([s EXCEPT !.exitCode = ExitCode_ButtonTimer_Consume])
       ELSE IF b.pressed
            THEN Return(SendTelemetry(b.s, "ButtonPress", in.send))
            ELSE Return(b.s)

(* --------------------------- azure timer ------------------------------ *)

\* IoTHubDeviceClient_LL_DoWork(iothubClientHandle) is entered: on a live
\* handle the SDK runs and may make callbacks before it returns; on a
\* destroyed handle it faults, returns, or runs on the freed object (ub).
IoTHubDeviceClient_LL_DoWork(s, ub) ==
    LET s1 == Call(s, <<"IoTHubDeviceClient_LL_DoWork", "",
                        IF IsLive(s) THEN "OK" ELSE ub>>)
    IN IF IsLive(s) \/ ub = "STALE" THEN [s1 EXCEPT !.pc = "dowork"]
       ELSE IF ub = "CRASH" THEN [s1 EXCEPT !.pc = "crashed"]
       ELSE Return(s1)

ShouldSetUp_IgnoresState(s, probe) == probe = "INTERNET"

ShouldSetUp_IgnoresProbe(s, probe) ==
    /\ probe # "FATAL"
    /\ s.iotHubClientAuthenticationState = NotAuthenticated

ShouldSetUp_AnyInterfaceStatus(s, probe) ==
    /\ probe \in {"INTERNET", "NOINTERNET"}
    /\ s.iotHubClientAuthenticationState = NotAuthenticated

\* The test of the azure timer handler that guards SetUpAzureIoTHubClient.
ShouldSetUp(s, probe) ==
    /\ probe = "INTERNET"
    /\ s.iotHubClientAuthenticationState = NotAuthenticated

AzureTimerEventHandler_FatalProbeNotFatal(s0, in) ==
    LET s == ConsumeEventLoopTimerEvent(
                 Enter(s0, "AzureTimerEventHandler", "", ""),
                 "azureTimer", in.consume)
        p == Networking_GetInterfaceConnectionStatus(s, in.probe)
        s1 == IF ShouldSetUp(p, in.probe)
              THEN SetUpAzureIoTHubClient(p, in.setup)
              ELSE p
        counted == [s1 EXCEPT !.telemetryCount = @ + 1]
        s2 == IF s1.iotHubClientAuthenticationState = Authenticated
              THEN IF counted.telemetryCount = AzureIoTPollPeriodsPerTelemetry
                   THEN SendTempTelemetry([counted EXCEPT !.telemetryCount = 0],
                                          in.temp, in.hum)
                   ELSE counted
              ELSE s1
    IN IF ~in.consume
       THEN Return([s EXCEPT !.exitCode = ExitCode_AzureTimer_Consume])
       ELSE IF Crashed(s1) THEN s1
       ELSE IF in.probe = "FATAL"
            THEN Return(s1)
       ELSE IF Crashed(s2) THEN s2
       ELSE IF s2.iothubClientHandle # NULL
            THEN IoTHubDeviceClient_LL_DoWork(s2, in.dowork)
            ELSE Return(s2)

AzureTimerEventHandler_CountsInEveryState(s0, in) ==
    LET s == ConsumeEventLoopTimerEvent(
                 Enter(s0, "AzureTimerEventHandler", "", ""),
                 "azureTimer", in.consume)
        p == Networking_GetInterfaceConnectionStatus(s, in.probe)
        s1 == IF ShouldSetUp(p, in.probe)
              THEN SetUpAzureIoTHubClient(p, in.setup)
              ELSE p
        counted == [s1 EXCEPT !.telemetryCount = @ + 1]
        s2 == IF TRUE
              THEN IF counted.telemetryCount = AzureIoTPollPeriodsPerTelemetry
                   THEN SendTempTelemetry([counted EXCEPT !.telemetryCount = 0],
                                          in.temp, in.hum)
                   ELSE counted
              ELSE s1
    IN IF ~in.consume
       THEN Return([s EXCEPT !.exitCode = ExitCode_AzureTimer_Consume])
       ELSE IF Crashed(s1) THEN s1
       ELSE IF in.probe = "FATAL"
            THEN Return([s1 EXCEPT !.exitCode = ExitCode_InterfaceConnectionStatus_Failed])
       ELSE IF Crashed(s2) THEN s2
       ELSE IF s2.iothubClientHandle # NULL
            THEN IoTHubDeviceClient_LL_DoWork(s2, in.dowork)
            ELSE Return(s2)

AzureTimerEventHandler(s0, in) ==
    LET s == ConsumeEventLoopTimerEvent(
                 Enter(s0, "AzureTimerEventHandler", "", ""),
                 "azureTimer", in.consume)
        p == Networking_GetInterfaceConnectionStatus(s, in.probe)
        s1 == IF ShouldSetUp(p, in.probe)
              THEN SetUpAzureIoTHubClient(p, in.setup)
              ELSE p
        counted == [s1 EXCEPT !.telemetryCount = @ + 1]
        s2 == IF s1.iotHubClientAuthenticationState = Authenticated
              THEN IF counted.telemetryCount = AzureIoTPollPeriodsPerTelemetry
                   THEN SendTempTelemetry([counted EXCEPT !.telemetryCount = 0],
                                          in.temp, in.hum)
                   ELSE counted
              ELSE s1
    IN IF ~in.consume
       THEN Return([s EXCEPT !.exitCode = ExitCode_AzureTimer_Consume])
       ELSE IF Crashed(s1) THEN s1
       ELSE IF in.probe = "FATAL"
            THEN Return([s1 EXCEPT !.exitCode = ExitCode_InterfaceConnectionStatus_Failed])
       ELSE IF Crashed(s2) THEN s2
       ELSE IF s2.iothubClientHandle # NULL
            THEN IoTHubDeviceClient_LL_DoWork(s2, in.dowork)
            ELSE Return(s2)

(* ------------------- results of the external calls ------------------- *)

\* The inputs of one run of a handler in state s: the results of the external
\* calls it makes, one input for each combination the run can observe (a
\* result the run does not read is fixed).
SetupResults == IF connectionType = ConnectionType_Direct THEN DaaResults ELSE DpsResults

SetupInputs(s) ==
    [destroy : IF IsDangling(s) THEN {"CRASH", "NOOP"} ELSE {"OK"},
     setup : SetupResults]

NoSetup == [destroy |-> "OK", setup |-> "ok"]

ButtonInput(consume, read, newState, send) ==
    [consume |-> consume, read |-> read, newState |-> newState, send |-> send]

ButtonInputs(s) ==
    {ButtonInput(FALSE, TRUE, "High", NoSend),
     ButtonInput(TRUE, FALSE, "High", NoSend),
     ButtonInput(TRUE, TRUE, "High", NoSend)}
    \cup {ButtonInput(TRUE, TRUE, "Low", send) :
             send \in IF s.sendMessageButtonState = "High"
                      THEN TelemetryInputs(s) ELSE {NoSend}}

AzureTimerInput(consume, probe, setup, temp, hum, dowork) ==
    [consume |-> consume, probe |-> probe, setup |-> setup, temp |-> temp,
     hum |-> hum, dowork |-> dowork]

AzureTimerInputs(s) ==
    LET sends ==
            /\ s.iotHubClientAuthenticationState = Authenticated
            /\ s.telemetryCount + 1 = AzureIoTPollPeriodsPerTelemetry
        setups(probe) == IF ShouldSetUp(s, probe) THEN SetupInputs(s) ELSE {NoSetup}
        telemetry == IF sends THEN TelemetryInputs(s) ELSE {NoSend}
        doworks(probe) ==
            IF IsDangling(s) \/ (ShouldSetUp(s, probe) /\ s.iothubClientHandle # NULL)
            THEN DanglingOutcomes ELSE {"NOOP"}
    IN {AzureTimerInput(FALSE, "INTERNET", NoSetup, NoSend, NoSend, "NOOP"),
        AzureTimerInput(TRUE, "FATAL", NoSetup, NoSend, NoSend, "NOOP")}
       \cup UNION {
              {AzureTimerInput(TRUE, probe, setup, temp, hum, dowork) :
                   setup \in setups(probe), temp \in telemetry, hum \in telemetry,
                   dowork \in doworks(probe)} :
              probe \in ProbeResults \ {"FATAL"}}

(* ------------------------- configuration ------------------------------ *)

\* A char* argument of the command line: <<>> is NULL, <<text>> a string, the
\* text a sequence of characters.
NoString == <<>>
UpperCaseLetters == {"D", "E", "V"}
isupper(c) == c \in UpperCaseLetters

ValidateUserConfiguration_NoCaseCheck ==
    IF connectionType < ConnectionType_DPS \/ connectionType > ConnectionType_Direct
    THEN ExitCode_Validate_ConnectionType
    ELSE IF connectionType = ConnectionType_DPS
    THEN IF scopeId = NoString THEN ExitCode_Validate_ScopeId ELSE ExitCode_Success
    ELSE IF hubHostName = NoString THEN ExitCode_Validate_IotHubHostname
    ELSE IF deviceId = NoString THEN ExitCode_Validate_DeviceId
    ELSE ExitCode_Success

ValidateUserConfiguration ==
    LET v0 == IF connectionType < ConnectionType_DPS
                 \/ connectionType > ConnectionType_Direct
              THEN ExitCode_Validate_ConnectionType
              ELSE ExitCode_Success
        v1 == IF connectionType = ConnectionType_DPS /\ scopeId = NoString
              THEN ExitCode_Validate_ScopeId
              ELSE v0
        v2 == IF connectionType = ConnectionType_Direct
              THEN IF hubHostName = NoString THEN ExitCode_Validate_IotHubHostname
                   ELSE IF deviceId = NoString THEN ExitCode_Validate_DeviceId
                   ELSE v1
              ELSE v1
    IN IF connectionType = ConnectionType_Direct
          /\ deviceId # NoString
          /\ \E i \in 1 .. Len(deviceId[1]) : isupper(deviceId[1][i])
       THEN ExitCode_Validate_DeviceId
       ELSE v2

\* The command lines ParseCommandLineArguments can leave behind: one for each
\* path through ValidateUserConfiguration.
SomeScope == <<"0ne0">>
SomeHost == <<"hub.azure-devices.net">>
LowerId == << <<"d", "e", "v">> >>
UpperId == << <<"D", "e", "v">> >>
Configuration(c, s, h, d) ==
    [connectionType |-> c, scopeId |-> s, hubHostName |-> h, deviceId |-> d]
Configurations ==
    {Configuration(ConnectionType_NotDefined, NoString, NoString, NoString),
     Configuration(ConnectionType_NotDefined, SomeScope, SomeHost, LowerId),
     Configuration(ConnectionType_DPS, NoString, NoString, NoString),
     Configuration(ConnectionType_DPS, SomeScope, NoString, NoString),
     Configuration(ConnectionType_Direct, NoString, NoString, NoString),
     Configuration(ConnectionType_Direct, NoString, NoString, UpperId),
     Configuration(ConnectionType_Direct, NoString, SomeHost, NoString),
     Configuration(ConnectionType_Direct, NoString, SomeHost, UpperId),
     Configuration(ConnectionType_Direct, NoString, SomeHost, LowerId)}

(* ------------------------- initialization ----------------------------- *)

\* The resources InitPeripheralsAndHandlers acquires, in the order of the
\* code: the resource, the call and its argument, and the exit code the
\* function returns when the call fails. ExitCode_Success stands for a
\* failure the function does not notice: the results of GPIO11's successors
\* are tested on the descriptor of GPIO11, and those of the sensor and of the
\* three LEDs of the RGB LED are not tested.
InitStep(resource, call, arg, code) ==
    [resource |-> resource, call |-> call, arg |-> arg, code |-> code]

InitSteps ==
    <<InitStep("EventLoop", "EventLoop_Create", "", ExitCode_Init_EventLoop),
      InitStep("MessageButton", "GPIO_OpenAsInput", "SAMPLE_BUTTON_1",
               ExitCode_Init_MessageButton),
      InitStep("Gpio0", "GPIO_OpenAsInput", "MT3620_GPIO11", ExitCode_Init_MessageButton),
      InitStep("Gpio1", "GPIO_OpenAsInput", "MT3620_GPIO0", ExitCode_Success),
      InitStep("Gpio2", "GPIO_OpenAsInput", "MT3620_GPIO1", ExitCode_Success),
      InitStep("Gpio3", "GPIO_OpenAsInput", "MT3620_GPIO2", ExitCode_Success),
      InitStep("I2C", "GroveShield_Initialize", "i2cFd", ExitCode_Success),
      InitStep("TwinStatusLed", "GPIO_OpenAsOutput", "SAMPLE_LED",
               ExitCode_Init_TwinStatusLed),
      InitStep("RLED", "GPIO_OpenAsOutput", "MT3620_RDB_LED2_RED", ExitCode_Success),
      InitStep("GLED", "GPIO_OpenAsOutput", "MT3620_RDB_LED2_GREEN", ExitCode_Success),
      InitStep("BLED", "GPIO_OpenAsOutput", "MT3620_RDB_LED2_BLUE", ExitCode_Success),
      InitStep("ButtonPollTimer", "CreateEventLoopPeriodicTimer", "buttonPollTimer",
               ExitCode_Init_ButtonPollTimer),
      InitStep("AzureTimer", "CreateEventLoopPeriodicTimer", "azureTimer",
               ExitCode_Init_AzureTimer)>>

InitResources == {InitSteps[i].resource : i \in 1 .. Len(InitSteps)}
RgbLedResources == {"RLED", "GLED", "BLED"}

\* The place of a resource in InitSteps, and the resource of an LED.
StepOf(resource) == CHOOSE i \in 1 .. Len(InitSteps) : InitSteps[i].resource = resource
LedResource(led) == IF led = "StatusLED" THEN "TwinStatusLed" ELSE led

\* The resource whose acquisition fails in InitPeripheralsAndHandlers, "none"
\* when all succeed. AllInitFailures has every resource; InitFailures leaves
\* out the LEDs of the RGB LED.
AllInitFailures == {"none"} \cup InitResources
InitFailures == AllInitFailures \ RgbLedResources

\* What InitPeripheralsAndHandlers returns when the acquisition of fail fails.
InitExitCode(fail) ==
    IF fail = "none" THEN ExitCode_Success ELSE InitSteps[StepOf(fail)].code

InitPeripheralsAndHandlers_ChecksNothing(s, fail) ==
    LET calls == [i \in 1 .. Len(InitSteps) |->
                     <<InitSteps[i].call, InitSteps[i].arg,
                       IF InitSteps[i].resource = fail THEN "ERROR" ELSE "OK">>]
        s0 == Enter(s, "InitPeripheralsAndHandlers", "", "")
    IN [s0 EXCEPT
           !.trace = @ \o calls,
           !.pc = "loop",
           !.exitCode = ExitCode_Success,
           !.gpioOutput =
               [led \in LedNames |->
                   IF LedResource(led) = fail THEN Unopened
                   ELSE IF led = "StatusLED" THEN "High" ELSE "Low"],
           !.azureIoTPollPeriodSeconds = AzureIoTDefaultPollPeriodSeconds,
           !.azureTimerPeriod =
               IF fail # "AzureTimer" THEN AzureIoTDefaultPollPeriodSeconds ELSE @]

\* main stores the function's result in exitCode and goes to the main loop.
\* The function returns at the first failure it notices; the calls up to there
\* are recorded in the trace. The status LED is opened High and the three LEDs
\* of the RGB LED Low; the poll period is set before the azure timer is
\* created with it.
InitPeripheralsAndHandlers(s, fail) ==
    LET noticed == InitExitCode(fail) # ExitCode_Success
        last == IF noticed THEN StepOf(fail) ELSE Len(InitSteps)
        calls == [i \in 1 .. last |->
                     <<InitSteps[i].call, InitSteps[i].arg,
                       IF InitSteps[i].resource = fail THEN "ERROR" ELSE "OK">>]
        Acquired(resource) == StepOf(resource) <= last /\ resource # fail
        s0 == Enter(s, "InitPeripheralsAndHandlers", "", "")
    IN [s0 EXCEPT
           !.trace = @ \o calls,
           !.pc = "loop",
           !.exitCode = InitExitCode(fail),
           !.gpioOutput =
               [led \in LedNames |->
                   IF ~Acquired(LedResource(led)) THEN Unopened
                   ELSE IF led = "StatusLED" THEN "High" ELSE "Low"],
           !.azureIoTPollPeriodSeconds =
               IF last = StepOf("AzureTimer") THEN AzureIoTDefaultPollPeriodSeconds ELSE @,
           !.azureTimerPeriod =
               IF Acquired("AzureTimer") THEN AzureIoTDefaultPollPeriodSeconds ELSE @]

\* GPIO_SetValue(fd, value) on the GPIO of an LED: without effect when the
\* GPIO was not opened (fd is -1).
GPIO_SetValue(s, led, value) ==
    LET s1 == Call(s, <<"GPIO_SetValue", led, value>>)
    IN IF s.gpioOutput[led] = Unopened THEN s1
       ELSE [s1 EXCEPT !.gpioOutput = [@ EXCEPT ![led] = value]]

\* ClosePeripheralsAndHandlers leaves the status LED off.
ClosePeripheralsAndHandlers(s) ==
    IF s.gpioOutput["StatusLED"] # Unopened
    THEN GPIO_SetValue(s, "StatusLED", "High")
    ELSE s

(* ----------------------- desired-state callback ----------------------- *)

\* json_object_dotget_boolean(object, name): 1 or 0 for a boolean member, -1
\* when the object is NULL, has no such member, or the member is no boolean.
json_object_dotget_boolean(members, name) ==
    CASE members[name] = "true" -> 1
      [] members[name] = "false" -> 0
      [] OTHER -> -1

DesiredProperties_FallsBackPerProperty(doc) ==
    IF doc.text # "object" THEN NoMembers
    ELSE IF doc.hasDesired
    THEN [led \in LedNames |-> IF doc.desired[led] = "absent" THEN doc.root[led]
                                ELSE doc.desired[led]]
    ELSE doc.root

\* The object DeviceTwinCallback reads the properties from: the member
\* "desired" of the root object, the root object when it has none; for a root
\* that is no object both are NULL and every lookup gives -1.
DesiredProperties(doc) ==
    IF doc.text # "object" THEN NoMembers
    ELSE IF doc.hasDesired THEN doc.desired
    ELSE doc.root

\* The in-memory flag of an LED.
LedOn(s, led) ==
    CASE led = "StatusLED" -> s.statusLedOn
      [] led = "RLED" -> s.RLedOn
      [] led = "GLED" -> s.GLedOn
      [] led = "BLED" -> s.BLedOn

SetLedOn(s, led, on) ==
    CASE led = "StatusLED" -> [s EXCEPT !.statusLedOn = on]
      [] led = "RLED" -> [s EXCEPT !.RLedOn = on]
      [] led = "GLED" -> [s EXCEPT !.GLedOn = on]
      [] led = "BLED" -> [s EXCEPT !.BLedOn = on]

\* The reported-state document for one LED.
LedReport(led, on) == <<led, IF on THEN "true" ELSE "false">>
ReportText(report) == "{" \o report[1] \o ":" \o report[2] \o "}"

ApplyDesired_ActiveHigh(s, props, led) ==
    LET value == json_object_dotget_boolean(props, led)
    IN IF value # -1
       THEN GPIO_SetValue(SetLedOn(s, led, value = 1), led,
                          IF value = 1 THEN "High" ELSE "Low")
       ELSE s

\* One property of the desired state: when it is a boolean, the flag takes
\* its value and the GPIO is driven Low for true, High for false.
ApplyDesired(s, props, led) ==
    LET value == json_object_dotget_boolean(props, led)
    IN IF value # -1
       THEN GPIO_SetValue(SetLedOn(s, led, value = 1), led,
                          IF value = 1 THEN "Low" ELSE "High")
       ELSE s

\* The report of one LED's flag, unless the process has faulted.
ReportLed(s, led, r) ==
    IF Crashed(s) THEN s
    ELSE TwinReportState(s, ReportText(LedReport(led, LedOn(s, led))), r)

DeviceTwinCallback_ReportsOnlyChanged(s0, doc, rs) ==
    LET s == [Enter(s0, "DeviceTwinCallback", doc.text, "") EXCEPT !.payload = doc]
        props == DesiredProperties(doc)
        Both(st, led, r) ==
            IF json_object_dotget_boolean(props, led) # -1
            THEN ReportLed(ApplyDesired(st, props, led), led, r)
            ELSE st
    IN IF doc.text = "malformed" THEN s
       ELSE Both(Both(Both(Both(s, "StatusLED", rs[1]), "RLED", rs[2]),
                      "GLED", rs[3]), "BLED", rs[4])

DeviceTwinCallback_AppliesBeforeParseCheck(s0, doc, rs) ==
    LET s == [Enter(s0, "DeviceTwinCallback", doc.text, "") EXCEPT !.payload = doc]
    IN IF doc.text = "malformed"
       THEN GPIO_SetValue(SetLedOn(s, "StatusLED", FALSE), "StatusLED", "High")
       ELSE s

\* doc: the payload as json_parse_string reads it; rs: the results of the four
\* calls of IoTHubDeviceClient_LL_SendReportedState. The allocation of the
\* null-terminated copy is taken to succeed.
DeviceTwinCallback(s0, doc, rs) ==
    LET s == [Enter(s0, "DeviceTwinCallback", doc.text, "") EXCEPT !.payload = doc]
        props == DesiredProperties(doc)
        s1 == ReportLed(ApplyDesired(s, props, "StatusLED"), "StatusLED", rs[1])
        s2 == ApplyDesired(ApplyDesired(ApplyDesired(s1, props, "RLED"),
                                        props, "GLED"), props, "BLED")
        s3 == ReportLed(ReportLed(ReportLed(s2, "RLED", rs[2]), "GLED", rs[3]),
                        "BLED", rs[4])
    IN IF doc.text = "malformed" THEN s
       ELSE IF Crashed(s1) THEN s1
       ELSE s3

\* The results of the four reports of one twin callback in s: the transport
\* accepts all or rejects all; on a destroyed handle the calls return or one
\* of them faults, the first or a later one.
ReportResults(s) ==
    IF IsDangling(s)
    THEN {<<"OK", "OK", "OK", "OK">>, <<"CRASH", "OK", "OK", "OK">>,
          <<"OK", "OK", "CRASH", "OK">>}
    ELSE {<<r, r, r, r>> : r \in SendResults(s)}

\* The payloads of the twin callback: text that is no JSON, a JSON value that
\* is no object, every combination of boolean and absent properties inside
\* "desired", no, one or all properties at the root, properties at the root
\* beside a "desired" object, and properties that are no booleans.
BooleanMembers == [LedNames -> {"absent", "true", "false"}]
AllOf(value) == [led \in LedNames |-> value]
OnlyMember(led, value) == [NoMembers EXCEPT ![led] = value]
FewMembers ==
    {AllOf(v) : v \in {"absent", "true", "false"}}
    \cup {OnlyMember(led, v) : led \in LedNames, v \in {"true", "false"}}
Documents ==
    {Document("malformed", NoMembers, FALSE, NoMembers),
     Document("scalar", NoMembers, FALSE, NoMembers)}
    \cup {Document("object", NoMembers, TRUE, m) : m \in BooleanMembers}
    \cup {Document("object", m, FALSE, NoMembers) : m \in FewMembers}
    \cup {Document("object", AllOf(v), TRUE, OnlyMember(led, w)) :
              v \in {"true", "false"}, led \in LedNames, w \in {"true", "false"}}
    \cup {Document("object", NoMembers, TRUE, OnlyMember(led, "number")) :
              led \in LedNames}

(* -------------------------- command callback -------------------------- *)

\* The method names the hub can send: the alarm, and names strcmp tells from
\* it.
MethodNames == {"TriggerAlarm", "triggeralarm", "TriggerAlarm2", "Unknown", ""}

DeviceMethodCallback_AcceptsEveryName(s0, methodName) ==
    Call([Enter(s0, "DeviceMethodCallback", methodName, "") EXCEPT !.payload = NoPayload],
         <<"return", "\"Alarm Triggered\"", ToString(200)>>)

\* The response and the result the callback returns are recorded as the last
\* entry of the trace. The allocation of the response is taken to succeed.
DeviceMethodCallback(s0, methodName) ==
    LET s == [Enter(s0, "DeviceMethodCallback", methodName, "")
                  EXCEPT !.payload = NoPayload]
        responseString == IF methodName = "TriggerAlarm"
                          THEN "\"Alarm Triggered\"" ELSE "{}"
        result == IF methodName = "TriggerAlarm" THEN 200 ELSE -1
    IN Call(s, <<"return", responseString, ToString(result)>>)

(* ------------------------------ actions ------------------------------- *)

Init ==
    /\ pc = "main"
    /\ exitCode = ExitCode_Success
    /\ \E c \in Configurations :
          /\ connectionType = c.connectionType
          /\ scopeId = c.scopeId
          /\ hubHostName = c.hubHostName
          /\ deviceId = c.deviceId
    /\ iotHubClientAuthenticationState = NotAuthenticated
    /\ iothubClientHandle = NULL
    /\ liveHandles = {}
    /\ callbacks = [h \in Handles |-> {}]
    /\ azureIoTPollPeriodSeconds = -1
    /\ azureTimerPeriod = NoTimer
    /\ telemetryCount = 0
    /\ sendMessageButtonState = "High"
    /\ statusLedOn = FALSE
    /\ RLedOn = FALSE
    /\ GLedOn = FALSE
    /\ BLedOn = FALSE
    /\ gpioOutput = [led \in LedNames |-> Unopened]
    /\ payload = NoPayload
    /\ trace = <<>>
    /\ before = [iotHubClientAuthenticationState |-> NotAuthenticated,
                 azureIoTPollPeriodSeconds |-> -1]
    /\ consecutiveFailures = 0

\* main up to the call of InitPeripheralsAndHandlers.
Main_Validate ==
    /\ pc = "main"
    /\ LET v == ValidateUserConfiguration
       IN Commit([State EXCEPT !.exitCode = v,
                               !.pc = IF v # ExitCode_Success THEN "exited" ELSE "init"])

Main_Init ==
    /\ pc = "init"
    /\ \E fail \in InitFailures : Commit(InitPeripheralsAndHandlers(State, fail))

\* The test of the main loop succeeds: EventLoop_Run is called.
Main_LoopEnter ==
    /\ pc = "loop"
    /\ exitCode = ExitCode_Success
    /\ Commit([Idle(State) EXCEPT !.pc = "run"])

\* The test of the main loop fails: ClosePeripheralsAndHandlers, return.
Main_Exit ==
    /\ pc = "loop"
    /\ exitCode # ExitCode_Success
    /\ Commit([ClosePeripheralsAndHandlers(
                   Enter(State, "ClosePeripheralsAndHandlers", "", ""))
                   EXCEPT !.pc = "exited"])

\* EventLoop_Run returns EventLoop_Run_Failed with errno other than EINTR.
EventLoop_Failed ==
    /\ pc = "run"
    /\ Commit([State EXCEPT !.exitCode = ExitCode_Main_EventLoopFail, !.pc = "loop"])

\* EventLoop_Run returns without a dispatch (interrupted by a signal).
EventLoop_Interrupted ==
    /\ pc = "run"
    /\ Commit([State EXCEPT !.pc = "loop"])

TerminationHandler_EndsTheCallback ==
    /\ pc \in {"init", "loop", "run", "dowork"}
    /\ Commit([State EXCEPT !.exitCode = ExitCode_TermHandler_SigTerm,
                            !.pc = IF pc = "dowork" THEN "loop" ELSE pc])

\* SIGTERM is delivered.
TerminationHandler ==
    /\ pc \in {"init", "loop", "run", "dowork"}
    /\ Commit([State EXCEPT !.exitCode = ExitCode_TermHandler_SigTerm])

\* EventLoop_Run dispatches the button timer.
ButtonPollTimerEvent ==
    /\ pc = "run"
    /\ \E in \in ButtonInputs(State) : Commit(ButtonPollTimerEventHandler(State, in))

\* EventLoop_Run dispatches the azure timer.
AzureTimerEvent ==
    /\ pc = "run"
    /\ \E in \in AzureTimerInputs(State) : Commit(AzureTimerEventHandler(State, in))

\* IoTHubDeviceClient_LL_DoWork calls the connection status callback.
ConnectionStatusEvent ==
    /\ pc = "dowork"
    /\ "status" \in callbacks[iothubClientHandle]
    /\ \E result \in ConnectionStatuses, reason \in ConnectionStatusReasons :
       \E r \in SendResults(State) :
          Commit(ConnectionStatusCallback(State, result, reason, r))

\* IoTHubDeviceClient_LL_DoWork calls the confirmation callback of a message
\* the transport accepted earlier in the tick.
SendEventCallbackEvent ==
    /\ pc = "dowork"
    /\ \E i \in 2 .. Len(trace) :
           /\ trace[i][1] = "IoTHubDeviceClient_LL_SendEventAsync"
           /\ trace[i][3] = "OK"
    /\ \E result \in ConfirmationResults : Commit(SendEventCallback(State, result))

\* IoTHubDeviceClient_LL_DoWork returns, and with it the azure timer handler.
DoWork_Return ==
    /\ pc = "dowork"
    /\ Commit([State EXCEPT !.pc = "loop"])

Next ==
    \/ Main_Validate
    \/ Main_Init
    \/ Main_LoopEnter
    \/ Main_Exit
    \/ EventLoop_Failed
    \/ EventLoop_Interrupted
    \/ TerminationHandler
    \/ ButtonPollTimerEvent
    \/ AzureTimerEvent
    \/ ConnectionStatusEvent
    \/ SendEventCallbackEvent
    \/ DoWork_Return

Spec == Init /\ [][Next]_vars

(* ----------------- the callbacks of one session ----------------------- *)

\* The desired-state and the command callback write none of the globals the
\* timer handlers and the status callback read, so Spec leaves them out and
\* CallbackSpec specifies them: the two callbacks, made by
\* IoTHubDeviceClient_LL_DoWork in any number and order, starting in a state
\* of Spec in which DoWork has been entered.

\* The globals at the start of main.
Booted ==
    [pc |-> "main",
     exitCode |-> ExitCode_Success,
     iotHubClientAuthenticationState |-> NotAuthenticated,
     iothubClientHandle |-> NULL,
     liveHandles |-> {},
     callbacks |-> [h \in Handles |-> {}],
     azureIoTPollPeriodSeconds |-> -1,
     azureTimerPeriod |-> NoTimer,
     telemetryCount |-> 0,
     sendMessageButtonState |-> "High",
     statusLedOn |-> FALSE,
     RLedOn |-> FALSE,
     GLedOn |-> FALSE,
     BLedOn |-> FALSE,
     gpioOutput |-> [led \in LedNames |-> Unopened],
     payload |-> NoPayload,
     trace |-> <<>>,
     before |-> [iotHubClientAuthenticationState |-> NotAuthenticated,
                 azureIoTPollPeriodSeconds |-> -1],
     consecutiveFailures |-> 0]

\* EventLoop_Run is called in s.
Running(s) == [Idle(s) EXCEPT !.pc = "run"]

\* The first tick with internet connectivity after a successful
\* initialization, its setup attempt successful: DoWork is entered on the
\* handle of a new session.
SessionStarted ==
    AzureTimerEventHandler(
        Running(InitPeripheralsAndHandlers(Booted, "none")),
        AzureTimerInput(TRUE, "INTERNET", [destroy |-> "OK", setup |-> "ok"],
                        NoSend, NoSend, "NOOP"))

\* DoWork then calls the status callback with the confirmation of the
\* authentication, and goes on.
SessionAuthenticated ==
    ConnectionStatusCallback(SessionStarted, "AUTHENTICATED", "OK", "OK")

\* The session is then reported lost, and the setup attempt of the next tick
\* destroys its handle and fails with the handle still stored: DoWork is
\* entered on the destroyed handle and runs on the freed object.
SessionDestroyed ==
    AzureTimerEventHandler(
        Running(ConnectionStatusCallback(SessionStarted, "UNAUTHENTICATED",
                                         "NO_NETWORK", "OK")),
        AzureTimerInput(TRUE, "INTERNET",
                        [destroy |-> "OK",
                         setup |-> IF connectionType = ConnectionType_Direct
                                   THEN "security_init_failed"
                                   ELSE "failed_handle_unchanged"],
                        NoSend, NoSend, "STALE"))

\* The globals have the values of the record s.
Start(s) ==
    /\ pc = s.pc
    /\ exitCode = s.exitCode
    /\ iotHubClientAuthenticationState = s.iotHubClientAuthenticationState
    /\ iothubClientHandle = s.iothubClientHandle
    /\ liveHandles = s.liveHandles
    /\ callbacks = s.callbacks
    /\ azureIoTPollPeriodSeconds = s.azureIoTPollPeriodSeconds
    /\ azureTimerPeriod = s.azureTimerPeriod
    /\ telemetryCount = s.telemetryCount
    /\ sendMessageButtonState = s.sendMessageButtonState
    /\ statusLedOn = s.statusLedOn
    /\ RLedOn = s.RLedOn
    /\ GLedOn = s.GLedOn
    /\ BLedOn = s.BLedOn
    /\ gpioOutput = s.gpioOutput
    /\ payload = s.payload
    /\ trace = s.trace
    /\ before = s.before
    /\ consecutiveFailures = s.consecutiveFailures

CallbackInit ==
    /\ \E c \in {d \in Configurations : d.connectionType = ConnectionType_DPS
                                          /\ d.scopeId # NoString} :
          /\ connectionType = c.connectionType
          /\ scopeId = c.scopeId
          /\ hubHostName = c.hubHostName
          /\ deviceId = c.deviceId
    /\ Start(SessionAuthenticated) \/ Start(SessionDestroyed)

\* IoTHubDeviceClient_LL_DoWork calls the device twin callback.
DeviceTwinEvent ==
    /\ pc = "dowork"
    /\ "twin" \in callbacks[iothubClientHandle]
    /\ \E doc \in Documents, rs \in ReportResults(State) :
          Commit(DeviceTwinCallback(State, doc, rs))

\* IoTHubDeviceClient_LL_DoWork calls the device method callback.
DeviceMethodEvent ==
    /\ pc = "dowork"
    /\ "method" \in callbacks[iothubClientHandle]
    /\ \E methodName \in MethodNames :
          Commit(DeviceMethodCallback(State, methodName))

CallbackNext ==
    \/ DeviceTwinEvent
    \/ DeviceMethodEvent

CallbackSpec == CallbackInit /\ [][CallbackNext]_vars

(* ------------------------------ startup ------------------------------- *)

\* StartupSpec specifies main from its start to the first calls of
\* EventLoop_Run, with no event dispatched, for every resource
\* InitPeripheralsAndHandlers can fail to acquire.
Main_InitAnyFailure ==
    /\ pc = "init"
    /\ \E fail \in AllInitFailures : Commit(InitPeripheralsAndHandlers(State, fail))

StartupNext ==
    \/ Main_Validate
    \/ Main_InitAnyFailure
    \/ Main_LoopEnter
    \/ Main_Exit
    \/ EventLoop_Failed
    \/ EventLoop_Interrupted
    \/ TerminationHandler

StartupSpec == Init /\ [][StartupNext]_vars

(* ---------------------- reading the trace ----------------------------- *)

\* The handler the trace belongs to.
HandlerIs(tr, handler) == tr # <<>> /\ tr[1][1] = handler

\* The external calls of function fn in the trace, as indices.
CallsOf(tr, fn) == {i \in 2 .. Len(tr) : tr[i][1] = fn}
Called(tr, fn) == CallsOf(tr, fn) # {}

\* The external calls of the two setup procedures, and the first of each.
SetupCalls ==
    {"iothub_security_init", "IoTHubDeviceClient_LL_CreateFromDeviceAuth",
     "IoTHubDeviceClient_LL_SetOption",
     "IoTHubDeviceClient_LL_CreateWithAzureSphereDeviceAuthProvisioning"}
SetupEntryCalls ==
    {"iothub_security_init",
     "IoTHubDeviceClient_LL_CreateWithAzureSphereDeviceAuthProvisioning"}

\* A setup procedure was dispatched by the handler of the trace; one of its
\* calls failed; all of them succeeded.
SetupDispatched(tr) == \E i \in 2 .. Len(tr) : tr[i][1] \in SetupEntryCalls
SetupFailedIn(tr) ==
    /\ SetupDispatched(tr)
    /\ \E i \in 2 .. Len(tr) : tr[i][1] \in SetupCalls /\ tr[i][3] # "OK"
SetupSucceededIn(tr) ==
    /\ SetupDispatched(tr)
    /\ \A i \in 2 .. Len(tr) : tr[i][1] \in SetupCalls => tr[i][3] = "OK"

\* InitPeripheralsAndHandlers has run to its end: the azure timer exists.
Initialized == azureTimerPeriod # NoTimer

MinOf(a, b) == IF a < b THEN a ELSE b

(* ------------------------------ claims -------------------------------- *)

\* C1: once initialization has completed, the poll period is always between
\* the default period (2) and the maximum reconnect period (600), and a failed
\* setup dispatch never makes the poll period smaller than it was.
C1_PollPeriodBoundedAndMonotone ==
    [][/\ Initialized' =>
            /\ AzureIoTDefaultPollPeriodSeconds <= azureIoTPollPeriodSeconds'
            /\ azureIoTPollPeriodSeconds' <= AzureIoTMaxReconnectPeriodSeconds
       /\ (pc = "run" /\ SetupFailedIn(trace')) =>
            azureIoTPollPeriodSeconds' >= azureIoTPollPeriodSeconds]_vars

\* A failed setup dispatch raised an already backed-off period.
C1_Witness ==
    /\ Initialized
    /\ SetupFailedIn(trace)
    /\ before.azureIoTPollPeriodSeconds = AzureIoTMinReconnectPeriodSeconds
    /\ azureIoTPollPeriodSeconds > before.azureIoTPollPeriodSeconds

\* C2: a failed setup dispatch run with poll period p leaves the poll period at
\* the minimum reconnect period (60) when p is the default (2), and otherwise at
\* the smaller of 2*p and the maximum reconnect period (600).
C2_BackoffRule ==
    [][(pc = "run" /\ SetupFailedIn(trace')) =>
           azureIoTPollPeriodSeconds' =
               IF azureIoTPollPeriodSeconds = AzureIoTDefaultPollPeriodSeconds
               THEN AzureIoTMinReconnectPeriodSeconds
               ELSE MinOf(2 * azureIoTPollPeriodSeconds,
                          AzureIoTMaxReconnectPeriodSeconds)]_vars

\* A failed setup dispatch whose doubled period (960) exceeds the maximum.
C2_Witness ==
    /\ SetupFailedIn(trace)
    /\ 2 * before.azureIoTPollPeriodSeconds > AzureIoTMaxReconnectPeriodSeconds
    /\ before.azureIoTPollPeriodSeconds < AzureIoTMaxReconnectPeriodSeconds
    /\ azureIoTPollPeriodSeconds = AzureIoTMaxReconnectPeriodSeconds

\* C3: a successful setup dispatch leaves the poll period at the default (2),
\* whatever it was before, and re-arms the azure timer with that period.
C3_SuccessResetsPeriod ==
    [][(pc = "run" /\ SetupSucceededIn(trace')) =>
           /\ azureIoTPollPeriodSeconds' = AzureIoTDefaultPollPeriodSeconds
           /\ Called(trace', "SetEventLoopTimerPeriod")
           /\ azureTimerPeriod' = AzureIoTDefaultPollPeriodSeconds]_vars

\* A successful setup dispatch that started with the period at the maximum.
C3_Witness ==
    /\ SetupSucceededIn(trace)
    /\ before.azureIoTPollPeriodSeconds = AzureIoTMaxReconnectPeriodSeconds
    /\ azureIoTPollPeriodSeconds = AzureIoTDefaultPollPeriodSeconds
    /\ azureTimerPeriod = AzureIoTDefaultPollPeriodSeconds

\* The poll period after k consecutive failed setup dispatches, by the scenario
\* 2, 60, 120, 240, 480, 600, 600, ...
ScenarioPeriod(k) ==
    CASE k = 0 -> 2
      [] k = 1 -> 60
      [] k = 2 -> 120
      [] k = 3 -> 240
      [] k = 4 -> 480
      [] OTHER -> 600

\* C4: after k consecutive failed setup dispatches since initialization or the
\* last successful one, the poll period is the k-th element of 2, 60, 120, 240,
\* 480, 600, 600, ...: it reaches 600 with the fifth failure and stays there.
C4_FailureScenario ==
    Initialized => azureIoTPollPeriodSeconds = ScenarioPeriod(consecutiveFailures)

\* A failed setup dispatch that found the period at 600 and left it there.
C4_Witness ==
    /\ SetupFailedIn(trace)
    /\ consecutiveFailures >= 6
    /\ before.azureIoTPollPeriodSeconds = 600
    /\ azureIoTPollPeriodSeconds = 600

\* The result of the connectivity probe of the azure timer handler's trace.
TickProbed(tr, result) ==
    /\ HandlerIs(tr, "AzureTimerEventHandler")
    /\ Len(tr) >= 3
    /\ tr[3] = <<"Networking_GetInterfaceConnectionStatus", "wlan0", result>>

\* C5: a handler run that starts in state AuthenticationInitiated or
\* Authenticated (a poll tick in particular) dispatches no setup procedure and
\* destroys or replaces no handle; it leaves the handle, the registered
\* callbacks, the authentication state, the poll period and the timer period
\* as they were.
C5_NoSetupUnlessNotAuthenticated ==
    [][(pc = "run" /\ iotHubClientAuthenticationState # NotAuthenticated) =>
           /\ ~SetupDispatched(trace')
           /\ ~Called(trace', "IoTHubDeviceClient_LL_Destroy")
           /\ iothubClientHandle' = iothubClientHandle
           /\ liveHandles' = liveHandles
           /\ callbacks' = callbacks
           /\ iotHubClientAuthenticationState' = iotHubClientAuthenticationState
           /\ azureIoTPollPeriodSeconds' = azureIoTPollPeriodSeconds
           /\ azureTimerPeriod' = azureTimerPeriod]_vars

\* A poll tick with internet connectivity that started, and ended, in state
\* AuthenticationInitiated and went on to pump the transport.
C5_Witness ==
    /\ TickProbed(trace, "INTERNET")
    /\ before.iotHubClientAuthenticationState = AuthenticationInitiated
    /\ iotHubClientAuthenticationState = AuthenticationInitiated
    /\ Called(trace, "IoTHubDeviceClient_LL_DoWork")

\* C6: when a setup dispatch has succeeded, the state the handler leaves, in
\* which the transport is first pumped and callbacks can first be delivered,
\* has authentication state AuthenticationInitiated, a live handle with the
\* twin, method and status callbacks registered on it, and the default poll
\* period.
C6_SuccessfulSetupState ==
    [][(pc = "run" /\ SetupSucceededIn(trace')) =>
           /\ iotHubClientAuthenticationState' = AuthenticationInitiated
           /\ iothubClientHandle' \in liveHandles'
           /\ callbacks'[iothubClientHandle'] = CallbackNames
           /\ azureIoTPollPeriodSeconds' = AzureIoTDefaultPollPeriodSeconds
           /\ pc' = "dowork"]_vars

\* A successful setup dispatch, the pump entered and no callback made yet.
C6_Witness ==
    /\ pc = "dowork"
    /\ SetupSucceededIn(trace)
    /\ iotHubClientAuthenticationState = AuthenticationInitiated
    /\ callbacks[iothubClientHandle] = CallbackNames

\* C7: a failed setup dispatch (DPS or Direct) leaves the authentication state
\* NotAuthenticated, applies the backoff rule to the poll period, registers no
\* callback and leaves the exit code as it was (Success stays Success).
C7_FailedSetupState ==
    [][(pc = "run" /\ SetupFailedIn(trace')) =>
           /\ iotHubClientAuthenticationState' = NotAuthenticated
           /\ azureIoTPollPeriodSeconds' =
                  IF azureIoTPollPeriodSeconds = AzureIoTDefaultPollPeriodSeconds
                  THEN AzureIoTMinReconnectPeriodSeconds
                  ELSE MinOf(2 * azureIoTPollPeriodSeconds,
                             AzureIoTMaxReconnectPeriodSeconds)
           /\ azureTimerPeriod' = azureIoTPollPeriodSeconds'
           /\ ~Called(trace', "SetCallback")
           /\ iothubClientHandle' \in liveHandles' =>
                  callbacks'[iothubClientHandle'] = {}
           /\ exitCode' = exitCode]_vars

\* A failed Direct setup that created a handle (SetOption failed), with the
\* exit code still Success.
C7_Witness ==
    /\ SetupFailedIn(trace)
    /\ connectionType = ConnectionType_Direct
    /\ iothubClientHandle \in liveHandles
    /\ iotHubClientAuthenticationState = NotAuthenticated
    /\ exitCode = ExitCode_Success
    /\ azureIoTPollPeriodSeconds = AzureIoTMinReconnectPeriodSeconds

\* C8: after a connection status callback whose status is not AUTHENTICATED,
\* whatever its reason and the state it was made in, the authentication state
\* is NotAuthenticated and the callback has made no call of the transport (no
\* state report).
C8_NotAuthenticatedStatus ==
    (HandlerIs(trace, "ConnectionStatusCallback") /\ trace[1][2] # "AUTHENTICATED") =>
        /\ iotHubClientAuthenticationState = NotAuthenticated
        /\ Len(trace) = 1

\* A status callback that cancelled a pending authentication.
C8_Witness ==
    /\ HandlerIs(trace, "ConnectionStatusCallback")
    /\ trace[1][2] = "UNAUTHENTICATED"
    /\ before.iotHubClientAuthenticationState = AuthenticationInitiated
    /\ iotHubClientAuthenticationState = NotAuthenticated

\* The requests to report the static device metadata in the trace.
StaticReports(tr) ==
    {i \in CallsOf(tr, "IoTHubDeviceClient_LL_SendReportedState") :
         tr[i][2] = StaticReport}

\* C9: after a connection status callback whose status is AUTHENTICATED the
\* authentication state is Authenticated and the callback has handed exactly
\* one static device-metadata report to the transport; no other handler hands
\* over a static report.
C9_StaticReportOncePerAuthentication ==
    IF HandlerIs(trace, "ConnectionStatusCallback") /\ trace[1][2] = "AUTHENTICATED"
    THEN /\ iotHubClientAuthenticationState = Authenticated
         /\ Cardinality(StaticReports(trace)) = 1
    ELSE StaticReports(trace) = {}

\* An authentication confirmed while AuthenticationInitiated, whose static
\* report the transport accepted.
C9_Witness ==
    /\ HandlerIs(trace, "ConnectionStatusCallback")
    /\ trace[1][2] = "AUTHENTICATED"
    /\ before.iotHubClientAuthenticationState = AuthenticationInitiated
    /\ iotHubClientAuthenticationState = Authenticated
    /\ trace[2] = <<"IoTHubDeviceClient_LL_SendReportedState", StaticReport, "OK">>

\* C10: at most one handle is live at any time, and a setup attempt that finds
\* a stored handle calls IoTHubDeviceClient_LL_Destroy on it before the first
\* call of the DPS or Direct procedure.
C10_AtMostOneLiveHandle ==
    [][/\ Cardinality(liveHandles') <= 1
       /\ (pc = "run" /\ iothubClientHandle # NULL /\ SetupDispatched(trace')) =>
            \E i \in CallsOf(trace', "IoTHubDeviceClient_LL_Destroy") :
                \A j \in 2 .. Len(trace') : trace'[j][1] \in SetupCalls => i < j]_vars

\* A setup attempt that destroyed the live handle of the previous session and
\* created the next one.
C10_Witness ==
    /\ SetupSucceededIn(trace)
    /\ \E i \in CallsOf(trace, "IoTHubDeviceClient_LL_Destroy") : trace[i][3] = "OK"
    /\ liveHandles = {iothubClientHandle}

\* The telemetry step of the azure timer handler of the trace called
\* SendTelemetry in state Authenticated: a connectivity probe follows the
\* handler's own probe.
EmissionCycleIn(tr) ==
    /\ HandlerIs(tr, "AzureTimerEventHandler")
    /\ \E i \in 4 .. Len(tr) : tr[i][1] = "Networking_GetInterfaceConnectionStatus"

\* A probe made by SendTelemetry in the trace failed with an errno other than
\* EAGAIN.
SendProbeFatalIn(tr) ==
    \E i \in 4 .. Len(tr) :
        tr[i] = <<"Networking_GetInterfaceConnectionStatus", "wlan0", "FATAL">>

\* C11, as the specification states it: a poll tick whose connectivity probe
\* fails with EAGAIN skips the setup step and the telemetry-cadence step (the
\* counter is not incremented, no telemetry is emitted) and leaves the
\* authentication state, the poll period and the exit code unchanged.
C11_EagainSkipsTelemetryStep ==
    [][(pc = "run" /\ TickProbed(trace', "EAGAIN")) =>
           /\ ~SetupDispatched(trace')
           /\ telemetryCount' = telemetryCount
           /\ ~EmissionCycleIn(trace')
           /\ iotHubClientAuthenticationState' = iotHubClientAuthenticationState
           /\ azureIoTPollPeriodSeconds' = azureIoTPollPeriodSeconds
           /\ exitCode' = exitCode]_vars

\* C11, amended: a poll tick whose connectivity probe fails with EAGAIN skips
\* the setup step only. The telemetry-cadence step runs as in every tick: in
\* state Authenticated the counter is incremented, and an emission cycle runs
\* when it reaches the threshold. The authentication state and the poll period
\* are unchanged; the exit code changes only when a probe made by a send of
\* that emission cycle fails fatally. Unless a call on a destroyed handle has
\* faulted, the transport is pumped exactly when a handle is stored.
C11_EagainSkipsSetupOnly ==
    [][(pc = "run" /\ TickProbed(trace', "EAGAIN")) =>
           /\ ~SetupDispatched(trace')
           /\ ~Called(trace', "IoTHubDeviceClient_LL_Destroy")
           /\ iotHubClientAuthenticationState' = iotHubClientAuthenticationState
           /\ azureIoTPollPeriodSeconds' = azureIoTPollPeriodSeconds
           /\ telemetryCount' =
                  IF iotHubClientAuthenticationState = Authenticated
                  THEN (telemetryCount + 1) % AzureIoTPollPeriodsPerTelemetry
                  ELSE telemetryCount
           /\ EmissionCycleIn(trace') <=>
                  /\ iotHubClientAuthenticationState = Authenticated
                  /\ telemetryCount + 1 = AzureIoTPollPeriodsPerTelemetry
           /\ exitCode' # exitCode <=>
                  /\ SendProbeFatalIn(trace')
                  /\ exitCode # ExitCode_InterfaceConnectionStatus_Failed
           /\ pc' # "crashed" =>
                  (iothubClientHandle # NULL <=>
                       Called(trace', "IoTHubDeviceClient_LL_DoWork"))]_vars

\* A tick whose probe failed with EAGAIN, and which counted to the threshold
\* and handed a telemetry message to the transport.
C11_Witness ==
    /\ TickProbed(trace, "EAGAIN")
    /\ before.iotHubClientAuthenticationState = Authenticated
    /\ telemetryCount = 0
    /\ Called(trace, "IoTHubDeviceClient_LL_SendEventAsync")

\* C12: a poll tick whose connectivity probe fails with an errno other than
\* EAGAIN sets the exit code to InterfaceConnectionStatus_Failed and returns
\* at once, without the telemetry step and without pumping the transport. With
\* a nonzero exit code the main loop dispatches no further handler: the only
\* steps left are main leaving the loop for the cleanup, which keeps the exit
\* code, and a termination request, which stores its own nonzero code.
C12_FatalProbeStopsTheLoop ==
    [][/\ (pc = "run" /\ TickProbed(trace', "FATAL")) =>
            /\ exitCode' = ExitCode_InterfaceConnectionStatus_Failed
            /\ pc' = "loop"
            /\ Len(trace') = 3
            /\ telemetryCount' = telemetryCount
       /\ (pc = "loop" /\ exitCode # ExitCode_Success) =>
            /\ trace' = trace \/ HandlerIs(trace', "ClosePeripheralsAndHandlers")
            /\ \/ pc' = "exited" /\ exitCode' = exitCode
               \/ pc' = "loop" /\ exitCode' = ExitCode_TermHandler_SigTerm
       /\ pc = "exited" => pc' = "exited"]_vars

\* A fatal probe in a tick that would otherwise have emitted telemetry and
\* pumped the live handle.
C12_Witness ==
    /\ pc = "loop"
    /\ TickProbed(trace, "FATAL")
    /\ exitCode = ExitCode_InterfaceConnectionStatus_Failed
    /\ iotHubClientAuthenticationState = Authenticated
    /\ telemetryCount = AzureIoTPollPeriodsPerTelemetry - 1
    /\ iothubClientHandle \in liveHandles

\* The azure timer handler of the trace came to its telemetry step: the timer
\* event was consumed and the probe did not fail fatally.
TelemetryStepReached(tr) ==
    /\ HandlerIs(tr, "AzureTimerEventHandler")
    /\ Len(tr) >= 3
    /\ tr[2][3] = "OK"
    /\ tr[3][3] # "FATAL"

\* C13: the telemetry counter is always in 0 .. threshold - 1. A poll tick
\* increments it exactly when it comes to the telemetry step in state
\* Authenticated; an emission cycle (SendTempTelemetry) runs in exactly the
\* ticks whose increment reaches the threshold, and the counter is then 0. No
\* other step changes the counter.
C13_TelemetryCadence ==
    [][/\ telemetryCount' \in 0 .. AzureIoTPollPeriodsPerTelemetry - 1
       /\ IF pc = "run" /\ TelemetryStepReached(trace')
             /\ iotHubClientAuthenticationState = Authenticated
          THEN /\ telemetryCount' =
                      (telemetryCount + 1) % AzureIoTPollPeriodsPerTelemetry
               /\ EmissionCycleIn(trace') <=>
                      telemetryCount + 1 = AzureIoTPollPeriodsPerTelemetry
               /\ EmissionCycleIn(trace') => telemetryCount' = 0
          ELSE /\ telemetryCount' = telemetryCount
               /\ ~EmissionCycleIn(trace') \/ trace' = trace]_vars

\* The tenth tick in state Authenticated: both messages of the cycle were
\* handed to the transport and the counter is back at 0.
C13_Witness ==
    /\ TickProbed(trace, "INTERNET")
    /\ before.iotHubClientAuthenticationState = Authenticated
    /\ telemetryCount = 0
    /\ \E i \in CallsOf(trace, "IoTHubDeviceClient_LL_SendEventAsync") :
           trace[i] = <<"IoTHubDeviceClient_LL_SendEventAsync", "Temperature", "OK">>
    /\ \E i \in CallsOf(trace, "IoTHubDeviceClient_LL_SendEventAsync") :
           trace[i] = <<"IoTHubDeviceClient_LL_SendEventAsync", "Humidity", "OK">>

\* The calls of the transport's work function in the trace.
PumpCalls(tr) == CallsOf(tr, "IoTHubDeviceClient_LL_DoWork")

\* C14: every poll tick that does not abort fatally pumps the transport
\* exactly once, as its last step, when a session handle exists, and makes no
\* call of the work function when none exists.
C14_PumpOncePerTick ==
    [][(pc = "run" /\ TelemetryStepReached(trace')) =>
           IF iothubClientHandle' \in liveHandles'
           THEN PumpCalls(trace') = {Len(trace')}
           ELSE PumpCalls(trace') = {}]_vars

\* What the code does in place of C14: unless a call on a destroyed handle has
\* faulted earlier in the tick, the work function is called once, as the last
\* step, exactly when the stored handle is not NULL, live or destroyed.
C14_PumpsStoredHandle ==
    [][(pc = "run" /\ TelemetryStepReached(trace') /\ pc' # "crashed") =>
           IF iothubClientHandle' # NULL
           THEN PumpCalls(trace') = {Len(trace')}
           ELSE PumpCalls(trace') = {}]_vars

\* A tick whose setup attempt destroyed the handle of the previous session and
\* failed without storing another, and which then called the work function on
\* the destroyed handle.
C14_Witness ==
    /\ SetupFailedIn(trace)
    /\ \E i \in CallsOf(trace, "IoTHubDeviceClient_LL_Destroy") : trace[i][3] = "OK"
    /\ iothubClientHandle # NULL
    /\ iothubClientHandle \notin liveHandles
    /\ PumpCalls(trace) = {Len(trace)}

\* The value the button handler of the trace sampled, "ERROR" when the read
\* failed and "NONE" when the handler returned before the read.
ButtonSample(tr) ==
    IF HandlerIs(tr, "ButtonPollTimerEventHandler") /\ Len(tr) >= 3
       /\ tr[3][1] = "GPIO_GetValue"
    THEN tr[3][3]
    ELSE "NONE"

\* The sends of the trace that came to their connectivity probe (the trace of
\* a button handler holds no other probe), and the messages handed over.
SendAttempts(tr) == CallsOf(tr, "Networking_GetInterfaceConnectionStatus")
HandedOver(tr) == CallsOf(tr, "IoTHubDeviceClient_LL_SendEventAsync")

\* C15: a run of the button handler sends the button event exactly when the
\* sample is Low and the last known value is High; in state Authenticated
\* that is one send attempt, in any other state nothing is handed to the
\* transport. A sample that is Low after Low, or High, sends nothing. The
\* sample becomes the last known value.
C15_ButtonEdge ==
    [][(pc = "run" /\ HandlerIs(trace', "ButtonPollTimerEventHandler")) =>
           LET sample == ButtonSample(trace')
               edge == sample = "Low" /\ sendMessageButtonState = "High"
           IN /\ Cardinality(SendAttempts(trace')) =
                     IF edge /\ iotHubClientAuthenticationState = Authenticated
                     THEN 1 ELSE 0
              /\ Cardinality(HandedOver(trace')) <= Cardinality(SendAttempts(trace'))
              /\ \A i \in HandedOver(trace') : trace'[i][2] = "ButtonPress"
              /\ sendMessageButtonState' =
                     IF sample \in GPIO_Values THEN sample ELSE sendMessageButtonState
           ]_vars

\* A press in state Authenticated whose event the transport accepted.
C15_Witness ==
    /\ ButtonSample(trace) = "Low"
    /\ sendMessageButtonState = "Low"
    /\ iotHubClientAuthenticationState = Authenticated
    /\ \E i \in HandedOver(trace) :
           trace[i] = <<"IoTHubDeviceClient_LL_SendEventAsync", "ButtonPress", "OK">>

\* The reported-state documents the handler of the trace handed to
\* IoTHubDeviceClient_LL_SendReportedState, in the order of the calls.
IsReport(call) == call[1] = "IoTHubDeviceClient_LL_SendReportedState"
ReportsIn(tr) ==
    LET calls == SelectSeq(tr, IsReport)
    IN [i \in 1 .. Len(calls) |-> calls[i][2]]

\* The update {"desired":{"StatusLED":true}}.
StatusLedUpdate == Document("object", NoMembers, TRUE, OnlyMember("StatusLED", "true"))

\* C16: a desired-state callback whose payload parses, and which no fault on
\* a destroyed handle has cut short, hands exactly four reported-state
\* documents to the transport, for StatusLED, RLED, GLED and BLED in this
\* order, each with the value its flag has when the callback returns,
\* whichever properties the payload has; the update
\* {"desired":{"StatusLED":true}} received with all four flags off leaves
\* StatusLED on and the other three off.
C16_ReportsAllFour ==
    [][(HandlerIs(trace', "DeviceTwinCallback") /\ payload'.text # "malformed"
        /\ pc' # "crashed") =>
           /\ ReportsIn(trace') =
                  <<ReportText(LedReport("StatusLED", statusLedOn')),
                    ReportText(LedReport("RLED", RLedOn')),
                    ReportText(LedReport("GLED", GLedOn')),
                    ReportText(LedReport("BLED", BLedOn'))>>
           /\ (payload' = StatusLedUpdate
               /\ ~statusLedOn /\ ~RLedOn /\ ~GLedOn /\ ~BLedOn) =>
                  statusLedOn' /\ ~RLedOn' /\ ~GLedOn' /\ ~BLedOn']_vars

\* The update {"desired":{"StatusLED":true}} was received with the three LEDs
\* of the RGB LED as they were opened; the transport accepted the four reports.
C16_Witness ==
    /\ HandlerIs(trace, "DeviceTwinCallback")
    /\ payload = StatusLedUpdate
    /\ statusLedOn /\ ~RLedOn /\ ~GLedOn /\ ~BLedOn
    /\ \A led \in LedNames : gpioOutput[led] = "Low"
    /\ ReportsIn(trace) = <<"{StatusLED:true}", "{RLED:false}", "{GLED:false}",
                            "{BLED:false}">>
    /\ \A i \in 3 .. Len(trace) : trace[i][3] = "OK"

\* C17: a desired-state callback whose payload json_parse_string rejects
\* changes none of the four flags and none of the four outputs, calls neither
\* GPIO_SetValue nor the transport, and leaves the authentication state, the
\* poll period, the armed timer period and the exit code as they were.
C17_UnparsablePayloadDropped ==
    [][(HandlerIs(trace', "DeviceTwinCallback") /\ payload'.text = "malformed") =>
           /\ UNCHANGED <<statusLedOn, RLedOn, GLedOn, BLedOn, gpioOutput>>
           /\ Len(trace') = 1
           /\ UNCHANGED <<iotHubClientAuthenticationState, azureIoTPollPeriodSeconds,
                          azureTimerPeriod, exitCode, pc>>]_vars

\* An unparsable payload was received while LEDs were on: they stay on.
C17_Witness ==
    /\ HandlerIs(trace, "DeviceTwinCallback")
    /\ payload.text = "malformed"
    /\ statusLedOn /\ gpioOutput["StatusLED"] = "Low"
    /\ BLedOn /\ ~RLedOn /\ gpioOutput["RLED"] = "High"
    /\ iotHubClientAuthenticationState = Authenticated
    /\ exitCode = ExitCode_Success

\* C18: the command callback returns 200 with the response "Alarm Triggered",
\* a JSON string, when the method name is TriggerAlarm, and -1 with the
\* response {} for every other name; it calls nothing else and writes none of
\* the globals: exit code, authentication state, session handle and its
\* object, poll period, timer, telemetry counter, button state, LED flags and
\* outputs are as before.
C18_CommandResponse ==
    [][HandlerIs(trace', "DeviceMethodCallback") =>
           /\ Len(trace') = 2
           /\ trace'[2] = IF trace'[1][2] = "TriggerAlarm"
                          THEN <<"return", "\"Alarm Triggered\"", "200">>
                          ELSE <<"return", "{}", "-1">>
           /\ UNCHANGED <<pc, exitCode, iotHubClientAuthenticationState,
                          iothubClientHandle, liveHandles, callbacks,
                          azureIoTPollPeriodSeconds, azureTimerPeriod,
                          telemetryCount, sendMessageButtonState, statusLedOn,
                          RLedOn, GLedOn, BLedOn, gpioOutput>>]_vars

\* TriggerAlarm was received while the status LED was on.
C18_Witness ==
    /\ HandlerIs(trace, "DeviceMethodCallback")
    /\ trace[1][2] = "TriggerAlarm"
    /\ trace[2][3] = "200"
    /\ statusLedOn
    /\ iotHubClientAuthenticationState = Authenticated

\* The configurations the validation has to reject: a connection type that is
\* neither DPS nor Direct, DPS without a scope id, Direct without a hub
\* hostname or without a device id or with an uppercase character in it.
InvalidConfiguration ==
    \/ connectionType \notin {ConnectionType_DPS, ConnectionType_Direct}
    \/ connectionType = ConnectionType_DPS /\ scopeId = NoString
    \/ /\ connectionType = ConnectionType_Direct
       /\ \/ hubHostName = NoString
          \/ deviceId = NoString
          \/ \E i \in 1 .. Len(deviceId[1]) : deviceId[1][i] \in UpperCaseLetters

ValidationExitCodes ==
    {ExitCode_Validate_ConnectionType, ExitCode_Validate_ScopeId,
     ExitCode_Validate_IotHubHostname, ExitCode_Validate_DeviceId}

\* C19: with an invalid configuration main returns right after the
\* validation, with one of the four nonzero validation exit codes: no GPIO is
\* opened, no timer armed, no handler ever runs and the main loop is never
\* reached. With a valid configuration the validation leaves the exit code
\* Success, the initialization follows, and when it succeeds the test of the
\* main loop succeeds and EventLoop_Run is called.
C19_ValidationGatesStartup ==
    [][/\ (pc = "main" /\ InvalidConfiguration) =>
            /\ pc' = "exited"
            /\ exitCode' \in ValidationExitCodes /\ exitCode' # 0
            /\ \A led \in LedNames : gpioOutput'[led] = Unopened
            /\ azureTimerPeriod' = NoTimer
            /\ trace' = <<>>
       /\ (pc = "main" /\ ~InvalidConfiguration) =>
            pc' = "init" /\ exitCode' = ExitCode_Success
       /\ (pc = "loop" /\ exitCode = ExitCode_Success /\ pc' # pc) =>
            ~InvalidConfiguration /\ pc' = "run"
       /\ InvalidConfiguration => pc' \in {"main", "exited"}]_vars

\* A Direct configuration whose device id has an uppercase character: main has
\* returned ExitCode_Validate_DeviceId.
C19_Witness ==
    /\ pc = "exited"
    /\ connectionType = ConnectionType_Direct
    /\ hubHostName # NoString
    /\ deviceId = UpperId
    /\ exitCode = ExitCode_Validate_DeviceId
    /\ \A led \in LedNames : gpioOutput[led] = Unopened

\* Positions of main from the first test of the main loop to the last.
InMainLoop == {"loop", "run", "dowork"}

\* C20: a SIGTERM delivered while the main loop runs writes exitCode and
\* nothing else: main and the handler it is in stay where they are. From then
\* on the exit code stays nonzero; the call of EventLoop_Run in progress
\* dispatches at most the one handler it had to dispatch, and at the next test
\* of the loop main dispatches nothing more: it runs
\* ClosePeripheralsAndHandlers and returns the nonzero exit code.
C20_TerminationRequest ==
    [][/\ (pc \in InMainLoop /\ exitCode # ExitCode_TermHandler_SigTerm
           /\ exitCode' = ExitCode_TermHandler_SigTerm) =>
            UNCHANGED <<pc, iotHubClientAuthenticationState, iothubClientHandle,
                        liveHandles, callbacks, azureIoTPollPeriodSeconds,
                        azureTimerPeriod, telemetryCount, sendMessageButtonState,
                        statusLedOn, RLedOn, GLedOn, BLedOn, gpioOutput, payload,
                        trace, before, consecutiveFailures>>
       /\ (pc \in InMainLoop /\ exitCode # ExitCode_Success) =>
            exitCode' # ExitCode_Success
       /\ (pc = "run" /\ exitCode # ExitCode_Success /\ trace' # trace) =>
            pc' # "run"
       /\ (pc = "loop" /\ exitCode # ExitCode_Success /\ pc' # pc) =>
            /\ pc' = "exited"
            /\ HandlerIs(trace', "ClosePeripheralsAndHandlers")
            /\ exitCode' = exitCode]_vars

\* SIGTERM arrived during a session, after the initialization: main has run
\* ClosePeripheralsAndHandlers and returned ExitCode_TermHandler_SigTerm.
C20_Witness ==
    /\ pc = "exited"
    /\ exitCode = ExitCode_TermHandler_SigTerm
    /\ HandlerIs(trace, "ClosePeripheralsAndHandlers")
    /\ iothubClientHandle # NULL
    /\ gpioOutput["StatusLED"] = "High"

\* The first call of the setup procedure of the configured connection type.
ConfiguredSetupEntry ==
    IF connectionType = ConnectionType_Direct
    THEN "iothub_security_init"
    ELSE "IoTHubDeviceClient_LL_CreateWithAzureSphereDeviceAuthProvisioning"

\* The setup procedures the handler of the trace has dispatched.
SetupEntries(tr) == {i \in 2 .. Len(tr) : tr[i][1] \in SetupEntryCalls}

\* C21: a setup procedure is dispatched only by a poll tick that starts in
\* state NotAuthenticated and whose probe reports internet connectivity: not
\* by the status callback that sets NotAuthenticated, not by the button
\* handler, not by a tick without connectivity. Such a tick, when a session
\* handle is stored, first calls IoTHubDeviceClient_LL_Destroy on it, once,
\* and when the handle was live it then dispatches exactly one setup
\* procedure, the one of the configured connection type.
C21_SetupAfterAuthenticationLoss ==
    [][/\ (pc = "run" /\ SetupDispatched(trace')) =>
            /\ iotHubClientAuthenticationState = NotAuthenticated
            /\ TickProbed(trace', "INTERNET")
       /\ (pc # "run" /\ trace' # trace) => ~SetupDispatched(trace')
       /\ (pc = "run" /\ iotHubClientAuthenticationState = NotAuthenticated
           /\ TickProbed(trace', "INTERNET") /\ iothubClientHandle # NULL) =>
            /\ Cardinality(CallsOf(trace', "IoTHubDeviceClient_LL_Destroy")) = 1
            /\ trace'[4][1] = "IoTHubDeviceClient_LL_Destroy"
            /\ iothubClientHandle \in liveHandles =>
                 /\ trace'[4][3] = "OK"
                 /\ iothubClientHandle \notin liveHandles' \ {iothubClientHandle'}
                 /\ Cardinality(SetupEntries(trace')) = 1
                 /\ \A i \in SetupEntries(trace') : trace'[i][1] = ConfiguredSetupEntry
                 /\ trace'[5][1] = ConfiguredSetupEntry]_vars

\* The session had been authenticated (the telemetry counter has advanced) and
\* was then reported lost; the first tick with internet connectivity has
\* destroyed its handle and set up the next session.
C21_Witness ==
    /\ TickProbed(trace, "INTERNET")
    /\ telemetryCount > 0
    /\ before.iotHubClientAuthenticationState = NotAuthenticated
    /\ trace[4] = <<"IoTHubDeviceClient_LL_Destroy", "", "OK">>
    /\ SetupSucceededIn(trace)
    /\ iotHubClientAuthenticationState = AuthenticationInitiated

\* C22: a handler run dispatches at most one setup procedure. When the
\* dispatch of a poll tick fails, nothing of a setup procedure is called again
\* in that tick: the poll period is backed off, the azure timer is re-armed
\* with the backed-off period, and the state stays NotAuthenticated for the
\* tick that timer dispatches next. Between ticks no handler dispatches a
\* setup procedure.
C22_OneSetupPerTick ==
    [][/\ pc = "run" => Cardinality(SetupEntries(trace')) <= 1
       /\ (pc = "run" /\ SetupFailedIn(trace')) =>
            LET failed == CHOOSE i \in 2 .. Len(trace') :
                              trace'[i][1] \in SetupCalls /\ trace'[i][3] # "OK"
            IN /\ \A j \in 2 .. Len(trace') : trace'[j][1] \in SetupCalls => j <= failed
               /\ trace'[failed + 1] = <<"SetEventLoopTimerPeriod", "azureTimer", "OK">>
               /\ azureIoTPollPeriodSeconds' =
                      IF azureIoTPollPeriodSeconds = AzureIoTDefaultPollPeriodSeconds
                      THEN AzureIoTMinReconnectPeriodSeconds
                      ELSE MinOf(2 * azureIoTPollPeriodSeconds,
                                 AzureIoTMaxReconnectPeriodSeconds)
               /\ azureTimerPeriod' = azureIoTPollPeriodSeconds'
               /\ iotHubClientAuthenticationState' = NotAuthenticated
       /\ (pc = "dowork" /\ trace' # trace) => SetupEntries(trace') = {}]_vars

\* A Direct setup that failed at its last call, for the second time in a row:
\* one dispatch, the timer re-armed with 120 seconds.
C22_Witness ==
    /\ HandlerIs(trace, "AzureTimerEventHandler")
    /\ SetupFailedIn(trace)
    /\ \E i \in CallsOf(trace, "IoTHubDeviceClient_LL_SetOption") : trace[i][3] = "ERROR"
    /\ Cardinality(SetupEntries(trace)) = 1
    /\ before.azureIoTPollPeriodSeconds = AzureIoTMinReconnectPeriodSeconds
    /\ azureTimerPeriod = 2 * AzureIoTMinReconnectPeriodSeconds

\* The calls of the trace that carry the button event.
ButtonMessages(tr) == {i \in 2 .. Len(tr) : tr[i][2] = "ButtonPress"}

\* C23: a run of the button handler that detects a press (sample Low, last
\* known value High) in a state other than Authenticated, or in state
\* Authenticated with a probe that does not report internet connectivity,
\* creates no message and hands nothing to the transport; it keeps nothing of
\* the press but the last known value Low, which only keeps the next Low
\* sample from counting as a press. No other handler run carries the button
\* event: a message for it is created only by the run that detects the press,
\* in state Authenticated, after a probe that reports connectivity.
C23_DroppedPressIsNotSentLater ==
    [][/\ (/\ pc = "run"
           /\ ButtonSample(trace') = "Low" /\ sendMessageButtonState = "High"
           /\ \/ iotHubClientAuthenticationState # Authenticated
              \/ trace'[4][3] # "INTERNET") =>
            /\ ButtonMessages(trace') = {}
            /\ HandedOver(trace') = {}
            /\ sendMessageButtonState' = "Low"
            /\ UNCHANGED <<iotHubClientAuthenticationState, iothubClientHandle,
                           liveHandles, callbacks, azureIoTPollPeriodSeconds,
                           azureTimerPeriod, telemetryCount, statusLedOn, RLedOn,
                           GLedOn, BLedOn, gpioOutput>>
       /\ (trace' # trace /\ ButtonMessages(trace') # {}) =>
            /\ pc = "run"
            /\ ButtonSample(trace') = "Low" /\ sendMessageButtonState = "High"
            /\ iotHubClientAuthenticationState = Authenticated
            /\ trace'[4] = <<"Networking_GetInterfaceConnectionStatus", "wlan0",
                             "INTERNET">>
            /\ Cardinality(HandedOver(trace')) <= 1]_vars

\* A press in state Authenticated while the interface had no internet
\* connectivity: the handler returned after the probe.
C23_Witness ==
    /\ ButtonSample(trace) = "Low"
    /\ sendMessageButtonState = "Low"
    /\ iotHubClientAuthenticationState = Authenticated
    /\ Len(trace) = 4
    /\ trace[4] = <<"Networking_GetInterfaceConnectionStatus", "wlan0", "NOINTERNET">>
    /\ pc = "loop"

\* The flag of an LED in the current state.
Flag(led) ==
    CASE led = "StatusLED" -> statusLedOn
      [] led = "RLED" -> RLedOn
      [] led = "GLED" -> GLedOn
      [] led = "BLED" -> BLedOn

EffectOf(doc, rs) == [DeviceTwinCallback(State, doc, rs) EXCEPT !.payload = NoPayload]

\* C25: wherever a twin callback can be made, a payload with properties at
\* the root and no "desired" object leaves the same flags and outputs and
\* makes the same calls and reports as the payload with the same properties
\* inside "desired"; and a payload with a "desired" object leaves and makes
\* the same as if its root had no properties.
C25_RootEqualsDesired ==
    pc = "dowork" =>
        \A rs \in ReportResults(State) :
            /\ \A m \in FewMembers :
                   EffectOf(Document("object", m, FALSE, NoMembers), rs)
                       = EffectOf(Document("object", NoMembers, TRUE, m), rs)
            /\ \A doc \in {d \in Documents : d.hasDesired /\ d.root # NoMembers} :
                   EffectOf(doc, rs)
                       = EffectOf(Document("object", NoMembers, TRUE, doc.desired), rs)

\* A payload with all four properties true at the root beside
\* {"desired":{"RLED":false}}, received while the blue LED was on and the
\* green LED off: only the red LED was set.
C25_Witness ==
    /\ HandlerIs(trace, "DeviceTwinCallback")
    /\ payload = Document("object", AllOf("true"), TRUE, OnlyMember("RLED", "false"))
    /\ ~RLedOn /\ gpioOutput["RLED"] = "High"
    /\ ~GLedOn /\ gpioOutput["GLED"] = "Low"
    /\ BLedOn
    /\ ~statusLedOn
    /\ ReportsIn(trace) = <<"{StatusLED:false}", "{RLED:false}", "{GLED:false}",
                            "{BLED:true}">>

\* The peripherals among the resources of InitPeripheralsAndHandlers: the
\* button, the four other inputs, the sensor bus and the four LEDs.
PeripheralResources ==
    {"MessageButton", "Gpio0", "Gpio1", "Gpio2", "Gpio3", "I2C", "TwinStatusLed",
     "RLED", "GLED", "BLED"}

\* The peripheral that failed to open in the run of
\* InitPeripheralsAndHandlers the trace records.
FailedToOpen(tr) ==
    {r \in PeripheralResources :
        /\ HandlerIs(tr, "InitPeripheralsAndHandlers")
        /\ StepOf(r) + 1 <= Len(tr)
        /\ tr[StepOf(r) + 1][3] = "ERROR"}

\* C26: when a peripheral fails to open, InitPeripheralsAndHandlers returns a
\* nonzero exit code, so that the main loop is not entered; the code is that
\* of no other peripheral.
C26_PeripheralFailureIsFatal ==
    [][(pc = "init" /\ FailedToOpen(trace') # {}) =>
           /\ exitCode' # ExitCode_Success
           /\ \A r \in FailedToOpen(trace') :
                  \A other \in PeripheralResources \ {r} :
                      InitExitCode(other) # exitCode']_vars

\* What holds of C26: the failures the function tests for (event loop, button,
\* GPIO11, status LED, the two timers) make it return a nonzero exit code,
\* and main then leaves the loop at its first test.
C26_NoticedFailureIsFatal ==
    [][/\ (pc = "init" /\ HandlerIs(trace', "InitPeripheralsAndHandlers")
           /\ trace'[Len(trace')][3] = "ERROR"
           /\ trace'[Len(trace')][1] # "CreateEventLoopPeriodicTimer") =>
            exitCode' \in {ExitCode_Init_EventLoop, ExitCode_Init_MessageButton,
                           ExitCode_Init_TwinStatusLed}
       /\ (pc = "loop" /\ HandlerIs(trace, "InitPeripheralsAndHandlers")
           /\ exitCode # ExitCode_Success /\ pc' # pc) => pc' = "exited"]_vars

\* The red LED failed to open, initialization returned Success and
\* EventLoop_Run has been called.
C26_Witness ==
    /\ pc = "run"
    /\ exitCode = ExitCode_Success
    /\ gpioOutput["RLED"] = Unopened
    /\ gpioOutput["GLED"] = "Low"
    /\ azureTimerPeriod = AzureIoTDefaultPollPeriodSeconds

\* The messages the handler of the trace created, and those it handed to the
\* transport, with text m; the calls of a send that failed.
CreatedWith(tr, m) ==
    {i \in CallsOf(tr, "IoTHubMessage_CreateFromString") : tr[i][2] = m}
HandedOverWith(tr, m) == {i \in HandedOver(tr) : tr[i][2] = m}
TelemetryMessages == {"Temperature", "Humidity", "ButtonPress"}
FailedSends(tr) ==
    {i \in CallsOf(tr, "IoTHubMessage_CreateFromString") : tr[i][3] = "NULL"}
    \cup {i \in HandedOver(tr) : tr[i][3] = "ERROR"}

\* C27: a handler run creates each telemetry message at most once and hands
\* it to the transport at most once, also when the creation fails or the
\* transport rejects it; after a failed send the authentication state, the
\* poll period and the timer period are as before, and so is the exit code
\* unless a connectivity probe of the run failed. The confirmation callback
\* calls nothing and writes no global whatever result it reports, and no
\* callback made by the transport creates or hands over a message: the
\* temperature and humidity messages are created only by the tick that
\* completes an emission cycle, the button message only by a button run.
C27_FailedSendNotResubmitted ==
    [][/\ pc = "run" =>
            \A m \in TelemetryMessages :
                /\ Cardinality(CreatedWith(trace', m)) <= 1
                /\ Cardinality(HandedOverWith(trace', m)) <= 1
       /\ (pc = "run" /\ FailedSends(trace') # {}) =>
            /\ UNCHANGED <<iotHubClientAuthenticationState, azureIoTPollPeriodSeconds,
                           azureTimerPeriod>>
            /\ (\A i \in SendAttempts(trace') : trace'[i][3] # "FATAL") =>
                   exitCode' = exitCode
       /\ (pc = "dowork" /\ trace' # trace) =>
            /\ \A m \in TelemetryMessages : CreatedWith(trace', m) = {}
            /\ HandedOver(trace') = {}
            /\ HandlerIs(trace', "SendEventCallback") =>
                   /\ Len(trace') = 1
                   /\ UNCHANGED <<pc, exitCode, iotHubClientAuthenticationState,
                                  iothubClientHandle, liveHandles, callbacks,
                                  azureIoTPollPeriodSeconds, azureTimerPeriod,
                                  telemetryCount, sendMessageButtonState>>
       /\ (pc = "run" /\ (CreatedWith(trace', "Temperature") # {}
                           \/ CreatedWith(trace', "Humidity") # {})) =>
            /\ HandlerIs(trace', "AzureTimerEventHandler")
            /\ telemetryCount + 1 = AzureIoTPollPeriodsPerTelemetry
       /\ (pc = "run" /\ CreatedWith(trace', "ButtonPress") # {}) =>
            HandlerIs(trace', "ButtonPollTimerEventHandler")]_vars

\* An emission cycle in which the transport rejected the temperature message
\* and accepted the humidity message, each handed over once.
C27_Witness ==
    /\ HandlerIs(trace, "AzureTimerEventHandler")
    /\ \E i \in HandedOverWith(trace, "Temperature") : trace[i][3] = "ERROR"
    /\ \E i \in HandedOverWith(trace, "Humidity") : trace[i][3] = "OK"
    /\ Cardinality(HandedOver(trace)) = 2
    /\ iotHubClientAuthenticationState = Authenticated
    /\ telemetryCount = 0
    /\ exitCode = ExitCode_Success
    /\ pc = "dowork"

\* The session handle is a live object on which SetUpAzureIoTHubClient has
\* registered its three callbacks.
SessionHandleReady ==
    /\ iothubClientHandle \in liveHandles
    /\ callbacks[iothubClientHandle] = CallbackNames

\* C28: in state AuthenticationInitiated or Authenticated the session handle
\* is live and carries the status, desired-state and command callbacks.
C28_SessionHandleWhileConnected ==
    iotHubClientAuthenticationState \in {AuthenticationInitiated, Authenticated}
        => SessionHandleReady

\* C28, the part that holds: in state AuthenticationInitiated the session
\* handle is live and carries the three callbacks.
C28_InitiatedHasSessionHandle ==
    iotHubClientAuthenticationState = AuthenticationInitiated => SessionHandleReady

\* C28, second part, which holds: IoTHubDeviceClient_LL_Destroy is called at
\* most once per handler, only by an azure timer tick that started in state
\* NotAuthenticated with the internet reachable, before the tick's setup
\* procedure is entered.
C28_DestroyOnlyInSetup ==
    [][CallsOf(trace', "IoTHubDeviceClient_LL_Destroy") # {} /\ trace' # trace =>
          /\ pc = "run"
          /\ HandlerIs(trace', "AzureTimerEventHandler")
          /\ iotHubClientAuthenticationState = NotAuthenticated
          /\ Cardinality(CallsOf(trace', "IoTHubDeviceClient_LL_Destroy")) = 1
          /\ pc' # "crashed" =>
                /\ Cardinality(SetupEntries(trace')) = 1
                /\ \A d \in CallsOf(trace', "IoTHubDeviceClient_LL_Destroy") :
                       \A e \in SetupEntries(trace') : d < e]_vars

\* The program is in state Authenticated and its session handle is the
\* address of an object a failed setup attempt destroyed.
C28_Witness ==
    /\ iotHubClientAuthenticationState = Authenticated
    /\ iothubClientHandle # NULL
    /\ iothubClientHandle \notin liveHandles
    /\ pc # "crashed"

DestroyCalls(tr) == CallsOf(tr, "IoTHubDeviceClient_LL_Destroy")

\* C29: every call of IoTHubDeviceClient_LL_DoWork and of
\* IoTHubDeviceClient_LL_Destroy is made on a live session handle, also in
\* the tick whose setup attempt destroyed the prior handle and failed, and in
\* the setup attempt after it.
C29_PumpAndDestroyOnLiveHandle ==
    [][trace' # trace =>
          \A i \in PumpCalls(trace') \cup DestroyCalls(trace') :
              trace'[i][3] = "OK"]_vars

\* What the code guarantees in place of C29: the two operations are never
\* applied to NULL, and a tick whose setup attempt stores a new handle or
\* NULL pumps a live handle or does not pump.
C29_NeverOnNull ==
    [][(trace' # trace /\ pc' # "crashed") =>
          /\ DestroyCalls(trace') # {} => iothubClientHandle # NULL
          /\ PumpCalls(trace') # {} => iothubClientHandle' # NULL
          /\ (PumpCalls(trace') # {} /\ iothubClientHandle' # iothubClientHandle) =>
                 iothubClientHandle' \in liveHandles']_vars

\* A setup attempt that called IoTHubDeviceClient_LL_Destroy on the handle an
\* earlier attempt had already destroyed, failed again, and whose tick then
\* pumped that handle.
C29_Witness ==
    /\ \E i \in DestroyCalls(trace) : trace[i][3] = "NOOP"
    /\ SetupFailedIn(trace)
    /\ \E i \in PumpCalls(trace) : trace[i][3] # "OK"
    /\ iothubClientHandle \notin liveHandles
    /\ consecutiveFailures >= 2

(* ------------------------- termination -------------------------------- *)

\* A step of the main thread during startup and in the loop: a step of main
\* itself or the return of EventLoop_Run, which here stands for any dispatch
\* that leaves the exit code as it is (EventLoop_Interrupted) or sets it
\* (EventLoop_Failed).
MainThreadStep ==
    \/ Main_Validate
    \/ Main_InitAnyFailure
    \/ Main_LoopEnter
    \/ Main_Exit
    \/ EventLoop_Failed
    \/ EventLoop_Interrupted

\* The startup with the progress its scheduling gives: main is a sequential
\* thread, so its next step is taken once it is due, and the periodic button
\* timer makes every call of EventLoop_Run return.
TerminationSpec == Init /\ [][StartupNext]_vars /\ WF_vars(MainThreadStep)

TerminationRequested == exitCode = ExitCode_TermHandler_SigTerm
ProcessEnded == pc \in {"exited", "crashed"}

\* C30: a SIGTERM delivered at any time after the handler is installed, also
\* while InitPeripheralsAndHandlers is still running, leads to the end of the
\* process.
C30_TerminationEventuallyExits == TerminationRequested ~> ProcessEnded

\* What holds in place of C30: a SIGTERM delivered once main is in its loop
\* leads to the end of the process.
C30_TerminationInLoopExits ==
    (TerminationRequested /\ pc \in InMainLoop) ~> ProcessEnded

\* The safety side of the loss: the return value of InitPeripheralsAndHandlers
\* replaces a termination request recorded during the initialization.
C30_RequestSurvivesInitialization ==
    [][(pc = "init" /\ TerminationRequested) => exitCode' # ExitCode_Success]_vars

\* SIGTERM has been delivered while InitPeripheralsAndHandlers is running.
C30_Witness ==
    /\ pc = "init"
    /\ TerminationRequested

BackedOff == azureIoTPollPeriodSeconds # AzureIoTDefaultPollPeriodSeconds

\* C31: whenever the poll period differs from the default, the
\* authentication state is NotAuthenticated.
C31_BackedOffOnlyWhenNotAuthenticated ==
    (pc \in InMainLoop /\ BackedOff) =>
        iotHubClientAuthenticationState = NotAuthenticated

\* What holds in place of the invariant of C31: a backed-off poll period in a
\* state other than NotAuthenticated occurs only while the stored handle is
\* the address of a destroyed object.
C31_BackedOffElsewhereOnlyOnDestroyedHandle ==
    (pc \in InMainLoop /\ BackedOff
     /\ iotHubClientAuthenticationState # NotAuthenticated) =>
        /\ iothubClientHandle # NULL
        /\ iothubClientHandle \notin liveHandles

\* C31, the part about the steps, which holds: the poll period is changed
\* only by an azure timer tick that dispatched a setup procedure; when the
\* procedure failed the period is the backed-off one, when it succeeded the
\* default. The status callback, the confirmation callback and the button
\* handler leave the poll period and the timer period as they are.
C31_PeriodChangedOnlyBySetup ==
    [][/\ (pc \in InMainLoop /\ azureIoTPollPeriodSeconds' # azureIoTPollPeriodSeconds) =>
            /\ pc = "run"
            /\ HandlerIs(trace', "AzureTimerEventHandler")
            /\ SetupEntries(trace') # {}
            /\ iotHubClientAuthenticationState = NotAuthenticated
            /\ azureIoTPollPeriodSeconds' =
                   IF SetupFailedIn(trace')
                   THEN BackoffPollPeriod(azureIoTPollPeriodSeconds)
                   ELSE AzureIoTDefaultPollPeriodSeconds
       /\ (pc = "run" /\ SetupFailedIn(trace') /\ pc' # "crashed") =>
            /\ azureIoTPollPeriodSeconds' = BackoffPollPeriod(azureIoTPollPeriodSeconds)
            /\ iotHubClientAuthenticationState' = NotAuthenticated
       /\ (pc = "dowork" /\ trace' # trace) =>
            UNCHANGED <<azureIoTPollPeriodSeconds, azureTimerPeriod>>]_vars

\* The program is in state Authenticated with a backed-off poll period.
C31_Witness ==
    /\ BackedOff
    /\ iotHubClientAuthenticationState = Authenticated
    /\ pc = "loop"

\* The level GPIO_SetValue is given for a flag: the LEDs are active low.
LevelOf(flag) == IF flag THEN "Low" ELSE "High"
OutputMatchesFlag(led) == gpioOutput[led] = LevelOf(Flag(led))
RgbLeds == {"RLED", "GLED", "BLED"}

\* C32: from the end of a successful initialization onward, the output of
\* each of the four LEDs is Low exactly when its flag is true and High exactly
\* when its flag is false.
C32_OutputMatchesFlag ==
    (pc \in InMainLoop /\ \A led \in LedNames : gpioOutput[led] # Unopened) =>
        \A led \in LedNames : OutputMatchesFlag(led)

\* What holds in place of C32: the output of the status LED, once opened,
\* matches its flag; an RGB LED whose output does not match its flag is in the
\* state the initialization left it in, output Low with the flag false.
C32_MismatchIsInitialRgb ==
    pc \in InMainLoop =>
        /\ gpioOutput["StatusLED"] # Unopened => OutputMatchesFlag("StatusLED")
        /\ \A led \in RgbLeds :
               (gpioOutput[led] # Unopened /\ ~OutputMatchesFlag(led)) =>
                   (~Flag(led) /\ gpioOutput[led] = "Low")

\* The main loop runs after a successful initialization: the three RGB
\* outputs are Low and their flags false.
C32_Witness ==
    /\ pc = "run"
    /\ exitCode = ExitCode_Success
    /\ \A led \in RgbLeds : ~Flag(led) /\ gpioOutput[led] = "Low"
    /\ ~statusLedOn /\ gpioOutput["StatusLED"] = "High"

\* The hand-over at position i of the trace belongs to a send whose own
\* connectivity probe reported the internet: the probe, the creation of the
\* message and the hand-over follow one another.
ProbedInSameSend(tr, i) ==
    /\ i >= 4
    /\ tr[i - 1][1] = "IoTHubMessage_CreateFromString"
    /\ tr[i - 1][2] = tr[i][2]
    /\ tr[i - 2] = <<"Networking_GetInterfaceConnectionStatus", "wlan0", "INTERNET">>

\* What the code guarantees of C33: a handler that hands a telemetry message
\* to the transport is the button handler or the azure timer handler, runs in
\* state Authenticated from its start to its end, has dispatched no setup
\* procedure, and every hand-over follows the creation of its message and a
\* probe of the same send that reported the internet; the handle passed is
\* the stored one, which is not NULL.
C33_TelemetryGated ==
    [][(trace' # trace /\ HandedOver(trace') # {}) =>
          /\ pc = "run"
          /\ \/ HandlerIs(trace', "ButtonPollTimerEventHandler")
             \/ HandlerIs(trace', "AzureTimerEventHandler")
          /\ iotHubClientAuthenticationState = Authenticated
          /\ pc' # "crashed" => iotHubClientAuthenticationState' = Authenticated
          /\ SetupEntries(trace') = {}
          /\ DestroyCalls(trace') = {}
          /\ \A i \in HandedOver(trace') : ProbedInSameSend(trace', i)
          /\ iothubClientHandle # NULL
          /\ iothubClientHandle' = iothubClientHandle]_vars

\* C33: every telemetry message is handed to the transport in state
\* Authenticated, after a probe of the same send that reported the internet,
\* on the live session handle, and not in a tick that dispatched a setup
\* attempt.
C33_TelemetryOnLiveSession ==
    /\ C33_TelemetryGated
    /\ [][(trace' # trace /\ HandedOver(trace') # {}) =>
              iothubClientHandle \in liveHandles]_vars

\* A button edge in state Authenticated whose message was handed to the
\* transport with the handle of a destroyed session.
C33_Witness ==
    /\ HandlerIs(trace, "ButtonPollTimerEventHandler")
    /\ HandedOverWith(trace, "ButtonPress") # {}
    /\ iotHubClientAuthenticationState = Authenticated
    /\ iothubClientHandle # NULL
    /\ iothubClientHandle \notin liveHandles

\* C34: telemetryCount is changed only by an azure timer tick that comes to
\* its telemetry step in state Authenticated, and such a tick adds one,
\* modulo the threshold, whatever happened since the last emission cycle. The
\* status callback and the confirmation callback, a tick that dispatches a
\* setup procedure (failed or successful), a tick in state NotAuthenticated or
\* AuthenticationInitiated, the button handler and a termination request
\* leave the counter as it is; it becomes 0 only in a tick that runs an
\* emission cycle, so a count accumulated before an authentication loss is
\* the count of the next session.
C34_CadenceCounterFrame ==
    [][/\ telemetryCount' # telemetryCount =>
            /\ pc = "run"
            /\ TelemetryStepReached(trace')
            /\ iotHubClientAuthenticationState = Authenticated
            /\ ~SetupDispatched(trace')
            /\ telemetryCount' = (telemetryCount + 1) % AzureIoTPollPeriodsPerTelemetry
       /\ (pc = "run" /\ TelemetryStepReached(trace')
           /\ iotHubClientAuthenticationState = Authenticated) =>
            /\ telemetryCount' = (telemetryCount + 1) % AzureIoTPollPeriodsPerTelemetry
            /\ EmissionCycleIn(trace') <=> telemetryCount' = 0
       /\ (pc = "run" /\ SetupDispatched(trace')) => telemetryCount' = telemetryCount
       /\ (pc = "run" /\ HandlerIs(trace', "ButtonPollTimerEventHandler")) =>
            telemetryCount' = telemetryCount
       /\ pc # "run" => telemetryCount' = telemetryCount
       /\ (pc = "run" /\ EmissionCycleIn(trace')) =>
            /\ telemetryCount = AzureIoTPollPeriodsPerTelemetry - 1
            /\ iotHubClientAuthenticationState = Authenticated]_vars

\* C34 for the desired-state and the command callback: they leave the counter
\* as it is.
C34_TwinAndMethodLeaveCounter == [][telemetryCount' = telemetryCount]_vars

\* A tick that set up a new session after the previous one was lost one tick
\* short of an emission cycle: the counter still holds that count.
C34_Witness ==
    /\ HandlerIs(trace, "AzureTimerEventHandler")
    /\ SetupSucceededIn(trace)
    /\ Called(trace, "IoTHubDeviceClient_LL_Destroy")
    /\ before.iotHubClientAuthenticationState = NotAuthenticated
    /\ iotHubClientAuthenticationState = AuthenticationInitiated
    /\ telemetryCount = AzureIoTPollPeriodsPerTelemetry - 1

(* --------------------- recovery of the session ------------------------ *)

\* RecoverySpec specifies the main loop from a point on from which the
\* environment is favourable: the timer events are consumed, every
\* connectivity probe reports the internet, every setup procedure succeeds,
\* the transport reports the session authenticated and never lost, no signal
\* arrives and EventLoop_Run does not fail. What a call on a destroyed handle
\* does stays open. The point is one of three: the first call of
\* EventLoop_Run; a session reported lost, its handle stored and live; a
\* setup attempt that destroyed the handle of a lost session and failed.
FirstRun == Running(InitPeripheralsAndHandlers(Booted, "none"))
SessionLost ==
    Running(ConnectionStatusCallback(SessionStarted, "UNAUTHENTICATED",
                                     "EXPIRED_SAS_TOKEN", "OK"))
SetupFailedAfterDestroy == Running(SessionDestroyed)

RecoveryInit ==
    /\ \E c \in {d \in Configurations :
                    \/ d.connectionType = ConnectionType_DPS /\ d.scopeId # NoString
                    \/ d.connectionType = ConnectionType_Direct
                       /\ d.hubHostName # NoString /\ d.deviceId = LowerId} :
          /\ connectionType = c.connectionType
          /\ scopeId = c.scopeId
          /\ hubHostName = c.hubHostName
          /\ deviceId = c.deviceId
    /\ Start(FirstRun) \/ Start(SessionLost) \/ Start(SetupFailedAfterDestroy)

\* EventLoop_Run dispatches the azure timer: the poll tick.
PollTick ==
    /\ pc = "run"
    /\ \E in \in AzureTimerInputs(State) :
          /\ in.consume
          /\ in.probe = "INTERNET"
          /\ in.setup.setup = "ok"
          /\ in.temp.probe = "INTERNET"
          /\ in.hum.probe = "INTERNET"
          /\ Commit(AzureTimerEventHandler(State, in))

\* EventLoop_Run dispatches the button timer.
ButtonTick ==
    /\ pc = "run"
    /\ \E in \in ButtonInputs(State) :
          /\ in.consume
          /\ in.read
          /\ in.send.probe = "INTERNET"
          /\ Commit(ButtonPollTimerEventHandler(State, in))

\* IoTHubDeviceClient_LL_DoWork calls the connection status callback with
\* IOTHUB_CLIENT_CONNECTION_AUTHENTICATED.
AuthenticatedAnswer ==
    /\ pc = "dowork"
    /\ "status" \in callbacks[iothubClientHandle]
    /\ \E r \in SendResults(State) :
          Commit(ConnectionStatusCallback(State, "AUTHENTICATED", "OK", r))

RecoveryNext ==
    \/ Main_LoopEnter
    \/ PollTick
    \/ ButtonTick
    \/ AuthenticatedAnswer
    \/ SendEventCallbackEvent
    \/ DoWork_Return

\* The poll tick can be dispatched whenever main is in EventLoop_Run, and the
\* status callback made whenever DoWork runs on a handle that carries it.
PollTickDue == pc = "run"
AnswerDue == pc = "dowork" /\ "status" \in callbacks[iothubClientHandle]

\* The timers are periodic and EventLoop_Run dispatches each event that is
\* due, so the poll tick is dispatched again and again although main is in
\* EventLoop_Run only between handlers; the transport gives its answer in
\* one of the calls of DoWork; main and DoWork go on. The two strong fairness
\* conditions, SF_vars(PollTick) and SF_vars(AuthenticatedAnswer), are
\* written out with the state predicates that say when the actions are
\* enabled.
RecoverySpec ==
    /\ RecoveryInit
    /\ [][RecoveryNext]_vars
    /\ WF_vars(Main_LoopEnter)
    /\ WF_vars(DoWork_Return)
    /\ []<>PollTickDue => []<><<PollTick>>_vars
    /\ []<>AnswerDue => []<><<AuthenticatedAnswer>>_vars

\* C35: in the favourable environment the state eventually is Authenticated
\* for good, and emission cycles occur again and again.
C35_EventuallyAuthenticated ==
    /\ <>[](iotHubClientAuthenticationState = Authenticated)
    /\ []<>EmissionCycleIn(trace)

\* What holds in place of C35: the same, from a point at which the stored
\* handle is NULL or live.
C35_AuthenticatedFromSoundHandle ==
    (iothubClientHandle = NULL \/ iothubClientHandle \in liveHandles) =>
        /\ <>[](iotHubClientAuthenticationState = Authenticated /\ pc # "crashed")
        /\ []<>EmissionCycleIn(trace)

\* C35, last part, which holds: state AuthenticationInitiated is left only by
\* a call of the connection status callback; no tick, however many, leaves it.
C35_NoTimeout ==
    [][(iotHubClientAuthenticationState = AuthenticationInitiated
        /\ iotHubClientAuthenticationState' # AuthenticationInitiated) =>
           /\ pc = "dowork"
           /\ HandlerIs(trace', "ConnectionStatusCallback")]_vars

\* The setup attempt of the favourable environment has called
\* IoTHubDeviceClient_LL_Destroy on the handle the failed attempt before it
\* had destroyed, and the call has faulted.
C35_Witness ==
    /\ pc = "crashed"
    /\ HandlerIs(trace, "AzureTimerEventHandler")
    /\ \E i \in DestroyCalls(trace) : trace[i][3] = "CRASH"
    /\ iotHubClientAuthenticationState = NotAuthenticated

====
